---- MODULE Spec2Model ----
(***************************************************************************)
(* Aave V3 liquidation pipeline: sentry scan / one-shot scan (candidate    *)
(* classification), planner (order construction), execution safety layer  *)
(* (staleness, gas cap, simulate, broadcast, blacklist feedback).          *)
(*                                                                         *)
(* Units: health factors are in hundredths (1.0 = 100), USD totals in      *)
(* whole dollars, time in milliseconds since the start of the run.         *)
(***************************************************************************)
EXTENDS Integers, Sequences, FiniteSets, TLC

VARIABLES
    now,            \* Date.now()
    ticks,          \* number of clock advances so far (bounded)
    blacklist,      \* blacklist.json: account -> expiry_ms (0 = no entry)
    borrowersFile,  \* borrowers.json (persisted universe)
    dbUsers,        \* scanCmd: in-memory universe
    prioritySet,    \* scanCmd: prioritySet, in insertion order
    cursor,         \* scanCmd: rotation cursor
    cycleCount,     \* scanCmd: cycleCount
    candidates,     \* candidates.jsonl
    lastScan,       \* history: what the last scan evaluated
    plan,           \* tx_plan.json
    planTrace,      \* history: what planCmd resolved for each item
    ex,             \* execCmd: the running invocation and its history
    txExec,         \* tx_exec.json
    blCalls,        \* history: the addToBlacklist calls made so far
    syncHead,       \* sync_head.json
    syncDeep,       \* sync_deep.json
    pad,            \* accounts of borrowers.json that are not named here
    mine,           \* history: what the last miner pass did
    enc,            \* history: the last encodeV3Path call and its result
    executor,       \* LiquidationExecutor: contract storage and call history
    blProcs         \* processes inside addToBlacklist: step and loaded copy

vars == <<now, ticks, blacklist, borrowersFile, dbUsers, prioritySet, cursor,
          cycleCount, candidates, lastScan, plan, planTrace, ex, txExec,
          blCalls, syncHead, syncDeep, pad, mine, enc, executor, blProcs>>

scanVars == <<borrowersFile, dbUsers, prioritySet, cursor, cycleCount,
              candidates, lastScan>>
planVars == <<plan, planTrace>>
extVars == <<enc, executor, blProcs>>
auxVars == <<blCalls, syncHead, syncDeep, pad, mine, enc, executor, blProcs>>

(***************************************************************************)
(* Bounds                                                                  *)
(***************************************************************************)
MaxTicks == 2
MaxCycles == 2
MaxPlans == 1
MaxRuns == 1
MaxAdds == 2
MaxMines == 2
MaxEncodes == 1
MaxCalls == 4

(***************************************************************************)
(* Values                                                                  *)
(***************************************************************************)
Accounts == {"a1", "a2"}
\* spellings under which callers name an account: lower case, checksummed
AddrSpellings == {"a1", "A1", "a2", "a3", "a4", "a5",
                  "0x0000000000000000000000000000000000000000"}
toLowerCase(addr) == IF addr = "A1" THEN "a1" ELSE addr
\* an empty blacklist.json (0 = no entry under that key)
EmptyBlacklist == [k \in AddrSpellings |-> 0]
ABSENT == "absent"
NoAmount == 0 - 1
ZERO_ADDRESS == "0x0000000000000000000000000000000000000000"
TOP_RESERVES == <<"USDC", "USDT", "WETH", "ARB", "WBTC", "DAI">>
Reserves == {TOP_RESERVES[i] : i \in 1..Len(TOP_RESERVES)}
NullHealth == [user |-> "null"]

Min(a, b) == IF a < b THEN a ELSE b
Max(a, b) == IF a > b THEN a ELSE b
Range(s) == {s[i] : i \in 1..Len(s)}

\* Array.from(new Set(s)): first occurrences, in order
Dedup(s) ==
    LET IsFirst(i) == \A j \in 1..(i - 1) : s[j] # s[i]
        kept == SelectSeq([i \in 1..Len(s) |-> i], IsFirst)
    IN [k \in 1..Len(kept) |-> s[kept[k]]]

\* Set.prototype.delete on the insertion-ordered set
SetDelete(s, x) == SelectSeq(s, LAMBDA y : y # x)
\* Set.prototype.add on the insertion-ordered set
SetAdd(s, x) == IF x \in Range(s) THEN s ELSE Append(s, x)

(***************************************************************************)
(* Blacklist store                                                         *)
(***************************************************************************)
DEFAULT_DURATION_MS == 3600000

loadBlacklist == blacklist

isBlacklisted(bl, addr, t) ==
    LET expiry == bl[toLowerCase(addr)]
    IN IF expiry = 0 THEN FALSE
       ELSE IF t > expiry THEN FALSE
       ELSE TRUE

\* an addToBlacklist that starts from an empty object instead of the
\* loaded file
addToBlacklistFresh(bl, addr, t, durationMs) ==
    [[k \in DOMAIN bl |-> 0] EXCEPT ![toLowerCase(addr)] = t + durationMs]

addToBlacklist(bl, addr, t, durationMs) ==
    LET pruned == [k \in DOMAIN bl |-> IF bl[k] < t THEN 0 ELSE bl[k]]
    IN [pruned EXCEPT ![toLowerCase(addr)] = t + durationMs]

(***************************************************************************)
(* Health engine                                                           *)
(***************************************************************************)
HF_EXEC == 100
HF_WATCH == 110
HF_PRIORITY == 150
HF_DETAIL == 110

\* one on-chain getUserAccountData answer; hf = Number(healthFactor)/1e18,
\* totals = Number(base)/1e8
FailRead == [ok |-> FALSE]
Read(hf, coll, debt) == [ok |-> TRUE, hf |-> hf, coll |-> coll, debt |-> debt]

getUserHealthDetailed(user, rd) ==
    IF ~rd.ok THEN NullHealth
    ELSE [user |-> user,
          healthFactor |-> rd.hf,
          totalCollateralUSD |-> rd.coll,
          totalDebtUSD |-> rd.debt,
          bestDebt |-> ZERO_ADDRESS,
          bestCollateral |-> ZERO_ADDRESS,
          bestDebtAmount |-> NoAmount]

\* a batch that answers a failed multicall with an empty list
getUsersHealthBatchEmptyOnFailure(users, batchOk, reads) ==
    IF users = <<>> \/ ~batchOk THEN <<>>
    ELSE [i \in 1..Len(users) |->
            LET r == reads[i][1]
            IN IF ~r.ok THEN NullHealth
               ELSE IF r.hf >= HF_DETAIL
                    THEN [user |-> users[i],
                          healthFactor |-> r.hf,
                          totalCollateralUSD |-> r.coll,
                          totalDebtUSD |-> r.debt,
                          bestDebt |-> ABSENT,
                          bestCollateral |-> ABSENT,
                          bestDebtAmount |-> NoAmount]
                    ELSE getUserHealthDetailed(users[i], reads[i][2])]

\* reads[i] = <<answer inside the multicall, answer of the detailed call>>
getUsersHealthBatch(users, batchOk, reads) ==
    IF users = <<>> THEN <<>>
    ELSE IF ~batchOk THEN [i \in 1..Len(users) |-> NullHealth]
    ELSE [i \in 1..Len(users) |->
            LET r == reads[i][1]
            IN IF ~r.ok THEN NullHealth
               ELSE IF r.hf >= HF_DETAIL
                    THEN [user |-> users[i],
                          healthFactor |-> r.hf,
                          totalCollateralUSD |-> r.coll,
                          totalDebtUSD |-> r.debt,
                          bestDebt |-> ABSENT,
                          bestCollateral |-> ABSENT,
                          bestDebtAmount |-> NoAmount]
                    ELSE getUserHealthDetailed(users[i], reads[i][2])]

\* the chain answers the model draws from
HFValues == {0, 95, 100, 109, 110, 149, 150}
DustReads == {Read(95, 0, 0), Read(95, 5, 5), Read(109, 5, 5), Read(109, 0, 5)}
ReadPairs ==
    {<<Read(hf, 600, 500), Read(hf, 600, 500)>> : hf \in HFValues}
    \cup {<<r, r>> : r \in DustReads}
    \cup {<<Read(95, 600, 500), FailRead>>,
          <<Read(95, 600, 500), Read(150, 600, 500)>>,
          <<FailRead, FailRead>>}
\* the second account of the universe meets fewer cases
FewReadPairs ==
    {<<Read(95, 600, 500), Read(95, 600, 500)>>,
     <<Read(150, 600, 500), Read(150, 600, 500)>>,
     <<FailRead, FailRead>>}
\* an account found by discovery while the sentry runs meets two cases
NewcomerReadPairs ==
    {<<Read(95, 600, 500), Read(95, 600, 500)>>,
     <<Read(150, 600, 500), Read(150, 600, 500)>>}
\* the answers one account can meet
\* the zero address holds no position: no collateral, no debt, a health
\* factor above every threshold
ZeroAddressReadPairs == {<<Read(150, 0, 0), Read(150, 0, 0)>>}
\* accounts of a large universe that stay healthy
FillerCount == 58
Fillers == [i \in 1..FillerCount |-> "f" \o ToString(i)]
FillerSet == {Fillers[i] : i \in 1..FillerCount}
FillerReadPairs == {<<Read(150, 600, 500), Read(150, 600, 500)>>}
ReadPairsOf(user) ==
    IF user = "a1" THEN ReadPairs
    ELSE IF user \in FillerSet THEN FillerReadPairs
    ELSE IF user = "a2" THEN FewReadPairs
    ELSE IF user = "0x0000000000000000000000000000000000000000"
    THEN ZeroAddressReadPairs
    ELSE NewcomerReadPairs
RECURSIVE ReadsForNamed(_)
ReadsForNamed(users) ==
    IF users = <<>> THEN {<<>>}
    ELSE {Append(f, p) : f \in ReadsForNamed(SubSeq(users, 1, Len(users) - 1)),
                         p \in ReadPairsOf(users[Len(users)])}
\* the answers a batch can meet: one choice per account; the healthy
\* accounts of a large universe have one answer each
ReadsFor(users) ==
    LET IsNamed(u) == u \notin FillerSet
        named == SelectSeq(users, IsNamed)
        rank(i) == Cardinality({j \in 1..i : IsNamed(users[j])})
    IN {[i \in 1..Len(users) |->
            IF IsNamed(users[i]) THEN f[rank(i)]
            ELSE CHOOSE p \in FillerReadPairs : TRUE] : f \in ReadsForNamed(named)}

\* what one batch call meets: an answer per account, or no answer at all
\* when the multicall itself fails
AnswersFor(users, batchOk) ==
    IF batchOk THEN ReadsFor(users)
    ELSE {[i \in 1..Len(users) |-> <<FailRead, FailRead>>]}

(***************************************************************************)
(* Candidate classifier and the two scans                                  *)
(***************************************************************************)
CHUNK_SIZE == 50
RELOAD_EVERY == 250
GHOST_USD == 1
DUST_USD == 10

candidateStatusInclusive(hf) ==
    IF hf <= HF_EXEC THEN "exec_ready"
    ELSE IF hf <= HF_WATCH THEN "watch"
    ELSE "below_watch"

candidateStatus(hf) ==
    IF hf < HF_EXEC THEN "exec_ready"
    ELSE IF hf < HF_WATCH THEN "watch"
    ELSE "below_watch"

\* 1 / hf, in hundredths
proximity(hf) == IF hf = 0 THEN 10000 ELSE 10000 \div hf

Candidate(health) ==
    [borrower |-> health.user,
     healthFactor |-> health.healthFactor,
     proximity |-> proximity(health.healthFactor),
     totalCollateralUSD |-> health.totalCollateralUSD,
     totalDebtUSD |-> health.totalDebtUSD,
     bestDebt |-> health.bestDebt,
     bestCollateral |-> health.bestCollateral,
     bestDebtAmount |-> NoAmount,
     status |-> candidateStatus(health.healthFactor)]

\* sentry loop: is the evaluated account dropped by the ghost filter
sentryDust(health) ==
    health.totalCollateralUSD < GHOST_USD /\ health.totalDebtUSD < GHOST_USD

\* one-shot scan: is the evaluated account dropped by the dust filter
scanDust(health) == health.totalDebtUSD < DUST_USD

\* the body of the for-loop over the batch results of one sentry cycle,
\* applied to one result; acc holds the priority set and the candidates
sentryStep(health, acc, bl, checkBlacklist) ==
    IF health = NullHealth THEN acc
    ELSE
    LET hf == health.healthFactor
        user == health.user
        p1 == IF hf < HF_PRIORITY /\ hf > 0
              THEN SetAdd(acc.pset, user) ELSE SetDelete(acc.pset, user)
        st == candidateStatus(hf)
    IN IF st = "below_watch"
       THEN [pset |-> p1, cands |-> acc.cands]
       ELSE IF sentryDust(health)
       THEN [pset |-> SetDelete(p1, user), cands |-> acc.cands]
       ELSE IF checkBlacklist /\ isBlacklisted(bl, user, now)
       THEN [pset |-> SetDelete(p1, user), cands |-> acc.cands]
       ELSE [pset |-> p1, cands |-> Append(acc.cands, Candidate(health))]

\* the loop over results[i..], in order; the accumulator of one iteration
\* is computed before the next iteration starts
RECURSIVE sentryFold(_, _, _, _, _)
sentryFold(results, i, acc, bl, checkBlacklist) ==
    IF i > Len(results) THEN acc
    ELSE LET next == sentryStep(results[i], acc, bl, checkBlacklist)
         IN IF next.pset = next.pset
            THEN sentryFold(results, i + 1, next, bl, checkBlacklist)
            ELSE next

\* sentry result loop that publishes without consulting the blacklist
sentryResultsNoBlacklist(results, i, pset, cands, bl) ==
    sentryFold(results, i, [pset |-> pset, cands |-> cands], bl, FALSE)

\* the for-loop over the batch results of one sentry cycle
sentryResults(results, i, pset, cands, bl) ==
    sentryFold(results, i, [pset |-> pset, cands |-> cands], bl, TRUE)

\* writeJsonl(path, rows) of utils/io: the file is replaced by the rows in
\* one step
writeJsonl(file, rows) == rows

\* a candidate list that outlives the cycle
keptCandidates == candidates

\* const candidates = [] at the top of every cycle
newCandidates == <<>>

\* a cursor that runs on past the end of the universe
wrapCursorNever(c, len) == c

\* if (cursor >= dbUsers.length) cursor = 0
wrapCursor(c, len) == IF c >= len THEN 0 ELSE c

\* the two refresh rates of the daemon
SLEEP_TURBO == 500
SLEEP_ECO == 1000

\* const sleepTime = displayPriority.length > 0 ? 500 : 1000
sleepTime(displayPriority) ==
    IF Len(displayPriority) > 0 THEN SLEEP_TURBO ELSE SLEEP_ECO

\* one iteration of the while(true) loop of scanCmd
SentryCycle ==
    /\ lastScan.kind = "sentry"
    /\ cycleCount < MaxCycles
    /\ LET bl == loadBlacklist
           displayPriority ==
               SelectSeq(prioritySet, LAMBDA u : ~isBlacklisted(bl, u, now))
           cur == wrapCursor(cursor, Len(dbUsers))
           bgChunk == SubSeq(dbUsers, cur + 1, Min(cur + CHUNK_SIZE, Len(dbUsers)))
           usersCheck == Dedup(displayPriority \o bgChunk)
           freshUsers == borrowersFile
       IN /\ IF Len(dbUsers) > 0
             THEN \E batchOk \in BOOLEAN :
                  \E reads \in AnswersFor(usersCheck, batchOk) :
                    LET results == getUsersHealthBatch(usersCheck, batchOk, reads)
                        out == sentryResults(results, 1, prioritySet,
                                             newCandidates, bl)
                    IN /\ cursor' = cur + CHUNK_SIZE
                       /\ prioritySet' = out.pset
                       /\ candidates' = writeJsonl(candidates, out.cands)
                       /\ lastScan' = [kind |-> "sentry", n |-> lastScan.n + 1,
                                       users |-> usersCheck,
                                       results |-> results,
                                       bl |-> bl,
                                       sleepTime |-> sleepTime(displayPriority),
                                       mode |-> lastScan.mode]
             ELSE /\ candidates' = writeJsonl(candidates, newCandidates)
                  /\ lastScan' = [kind |-> "sentry", n |-> lastScan.n + 1,
                                  users |-> <<>>,
                                  results |-> <<>>,
                                  bl |-> bl,
                                  sleepTime |-> sleepTime(displayPriority),
                                  mode |-> lastScan.mode]
                  /\ UNCHANGED <<cursor, prioritySet>>
          /\ dbUsers' = IF cycleCount % RELOAD_EVERY = 0
                           /\ Len(freshUsers) > Len(dbUsers)
                        THEN freshUsers ELSE dbUsers
          /\ cycleCount' = cycleCount + 1
    /\ UNCHANGED auxVars
    /\ UNCHANGED <<now, ticks, blacklist, borrowersFile, plan, planTrace, ex, txExec>>

\* the health-check loop of the one-shot scan
RECURSIVE scanResults(_, _, _)
scanResults(results, i, cands) ==
    IF i > Len(results) THEN cands
    ELSE LET health == results[i]
         IN IF health = NullHealth THEN scanResults(results, i + 1, cands)
            ELSE IF candidateStatus(health.healthFactor) = "below_watch"
            THEN scanResults(results, i + 1, cands)
            ELSE IF scanDust(health)
            THEN scanResults(results, i + 1, cands)
            ELSE scanResults(results, i + 1, Append(cands, Candidate(health)))

\* health check and publish step of the one-shot scanCmd
ScanOnce ==
    /\ lastScan.kind = "oneshot"
    /\ lastScan.n < MaxCycles
    /\ Len(borrowersFile) > 0
    /\ \E batchOk \in BOOLEAN :
       \E reads \in AnswersFor(borrowersFile, batchOk) :
         LET results == getUsersHealthBatch(borrowersFile, batchOk, reads)
         IN /\ candidates' = writeJsonl(candidates, scanResults(results, 1, <<>>))
            /\ lastScan' = [kind |-> "oneshot", n |-> lastScan.n + 1,
                            users |-> borrowersFile,
                            results |-> results,
                            bl |-> blacklist]
    /\ UNCHANGED auxVars
    /\ UNCHANGED <<now, ticks, blacklist, borrowersFile, dbUsers, prioritySet,
                   cursor, cycleCount, plan, planTrace, ex, txExec>>

(***************************************************************************)
(* Just-in-time asset lookup                                               *)
(***************************************************************************)
\* oracle price of each allow-listed reserve
Price == [r \in Reserves |->
            IF r = "WETH" THEN 3 ELSE IF r = "WBTC" THEN 5 ELSE 1]

\* a position: aToken balance and variable-debt balance per reserve
Position(coll, debt) ==
    [r \in Reserves |-> [a |-> IF r \in DOMAIN coll THEN coll[r] ELSE 0,
                         d |-> IF r \in DOMAIN debt THEN debt[r] ELSE 0]]
EmptyFn == [x \in {} |-> 0]
Positions ==
    {Position(EmptyFn, EmptyFn),
     Position([WETH |-> 2], [USDC |-> 7]),
     Position([WETH |-> 2, DAI |-> 4], [USDC |-> 7, DAI |-> 8]),
     Position([WETH |-> 2], EmptyFn),
     Position(EmptyFn, [USDT |-> 6])}
\* what one getUserAssets call meets: the position it reads, or an RPC error
LookupThrows == [throws |-> TRUE]
NoLookup == [throws |-> FALSE, unused |-> TRUE]
Lookups == {[throws |-> FALSE, pos |-> p] : p \in Positions} \cup {LookupThrows}

RECURSIVE getUserAssetsLoop(_, _, _)
getUserAssetsLoop(pos, i, acc) ==
    IF i > Len(TOP_RESERVES) THEN acc
    ELSE LET reserveAsset == TOP_RESERVES[i]
             aTokenBalance == pos[reserveAsset].a
             debtBalance == pos[reserveAsset].d
             price == Price[reserveAsset]
             c1 == IF aTokenBalance > 0 /\ aTokenBalance * price > acc.maxCollateralValue
                   THEN [acc EXCEPT !.maxCollateralValue = aTokenBalance * price,
                                    !.bestCollateral = reserveAsset]
                   ELSE acc
             c2 == IF debtBalance > 0 /\ debtBalance * price > c1.maxDebtValue
                   THEN [c1 EXCEPT !.maxDebtValue = debtBalance * price,
                                   !.bestDebt = reserveAsset,
                                   !.bestDebtAmount = debtBalance]
                   ELSE c1
         IN getUserAssetsLoop(pos, i + 1, c2)

getUserAssets(pos) ==
    LET r == getUserAssetsLoop(pos, 1,
                 [bestDebt |-> ZERO_ADDRESS, bestCollateral |-> ZERO_ADDRESS,
                  maxDebtValue |-> 0, maxCollateralValue |-> 0,
                  bestDebtAmount |-> 0])
    IN [bestDebt |-> r.bestDebt, bestCollateral |-> r.bestCollateral,
        bestDebtAmount |-> r.bestDebtAmount]

(***************************************************************************)
(* Planner                                                                 *)
(***************************************************************************)
FEE == 3000
DEADLINE_HORIZON_SEC == 300
REFERRAL_CODE == 0
TypeError == <<"TypeError">>

\* bigintReplacer / BigInt(): a bigint is persisted as its decimal string
DecStr(n) == [dec |-> n]
BigInt(v) == v.dec

\* encodeV3Path: token_0 ++ fee_0 ++ token_1 ++ ...; hexNo0x throws on a
\* token that is undefined
RECURSIVE encodeV3PathLoop(_, _, _, _)
encodeV3PathLoop(tokens, fees, i, out) ==
    IF i > Len(tokens) - 1 THEN out
    ELSE encodeV3PathLoop(tokens, fees, i + 1,
            (IF i = 1 THEN out \o <<tokens[i]>> ELSE out)
                \o <<fees[i], tokens[i + 1]>>)

encodeV3Path(tokens, fees) ==
    IF \E i \in 1..Len(tokens) : tokens[i] = ABSENT THEN TypeError
    ELSE encodeV3PathLoop(tokens, fees, 1, <<>>)

repayAmountRoundedUp(fullDebt) == (fullDebt + 1) \div 2

repayAmountOf(fullDebt) == fullDebt \div 2

Missing(a) == a = ABSENT \/ a = ZERO_ADDRESS

\* body of the for-loop of planCmd for one candidate; lookup is the
\* outcome of the getUserAssets call, if one is made
planItem(c, lookup, maxTxGasPriceWei, t) ==
    IF c.status = "below_watch" THEN [kind |-> "skip"]
    ELSE IF c.status # "exec_ready"
    THEN [kind |-> "item", built |-> 0,
          item |-> [candidateId |-> c.borrower, borrower |-> c.borrower,
                    netProfitUsd |-> 0, proximity |-> c.proximity,
                    action |-> "WATCH", pass |-> FALSE, note |-> "HF"]]
    ELSE IF Missing(c.bestDebt) /\ lookup.throws
    THEN [kind |-> "throw", cause |-> "getUserAssets"]
    ELSE
    LET assets == IF Missing(c.bestDebt) THEN getUserAssets(lookup.pos)
                  ELSE [bestDebt |-> c.bestDebt,
                        bestCollateral |-> c.bestCollateral,
                        bestDebtAmount |-> IF c.bestDebtAmount = NoAmount THEN 0
                                           ELSE c.bestDebtAmount]
        base == [candidateId |-> c.borrower, borrower |-> c.borrower,
                 netProfitUsd |-> 0, proximity |-> c.proximity,
                 action |-> "WATCH", pass |-> FALSE, note |-> "HF"]
    IN IF Missing(assets.bestDebt) \/ Missing(assets.bestCollateral)
       THEN [kind |-> "item", built |-> 0,
             item |-> [base EXCEPT !.note = "HF | Missing Best Assets"]]
       ELSE IF ~(assets.bestDebtAmount > 0)
       THEN [kind |-> "item", built |-> 0,
             item |-> [base EXCEPT
                        !.note = "HF | ORDER_BUILD_SKIPPED (Missing debt amount)"]]
       ELSE
       LET pathStr == encodeV3Path(<<c.bestCollateral, c.bestDebt>>, <<FEE>>)
       IN IF pathStr = TypeError
          THEN [kind |-> "throw", cause |-> "encodeV3Path"]
          ELSE [kind |-> "item", built |-> 1,
                item |-> [candidateId |-> c.borrower, borrower |-> c.borrower,
                          netProfitUsd |-> 0, proximity |-> c.proximity,
                          action |-> "EXEC", pass |-> TRUE,
                          note |-> "EXEC_READY_ORDER_BUILT",
                          order |-> [debtAsset |-> c.bestDebt,
                                     collateralAsset |-> c.bestCollateral,
                                     borrower |-> c.borrower,
                                     repayAmount |-> DecStr(repayAmountOf(assets.bestDebtAmount)),
                                     uniPath |-> pathStr,
                                     amountOutMin |-> DecStr(0),
                                     minProfit |-> DecStr(0),
                                     deadline |-> DecStr((t \div 1000) + DEADLINE_HORIZON_SEC),
                                     maxTxGasPrice |-> DecStr(maxTxGasPriceWei),
                                     referralCode |-> REFERRAL_CODE,
                                     nonce |-> DecStr(t)]]]

\* planLoop counting every item as built
RECURSIVE planLoopCountsAll(_, _, _, _, _, _)
planLoopCountsAll(cands, lookups, cap, t, i, acc) ==
    IF i > Len(cands) THEN acc
    ELSE LET r == planItem(cands[i], lookups[i], cap, t)
         IN IF r.kind = "throw"
            THEN [acc EXCEPT !.threw = TRUE, !.cause = r.cause]
            ELSE IF r.kind = "skip"
            THEN planLoopCountsAll(cands, lookups, cap, t, i + 1, acc)
            ELSE planLoopCountsAll(cands, lookups, cap, t, i + 1,
                    [acc EXCEPT !.items = Append(@, r.item),
                                !.execBuilt = @ + 1,
                                !.trace = Append(@,
                                    [cand |-> cands[i],
                                     lookup |-> IF cands[i].status = "exec_ready"
                                                   /\ Missing(cands[i].bestDebt)
                                                THEN lookups[i] ELSE NoLookup])])

\* the for-loop of planCmd over the candidate file
RECURSIVE planLoop(_, _, _, _, _, _)
planLoop(cands, lookups, cap, t, i, acc) ==
    IF i > Len(cands) THEN acc
    ELSE LET r == planItem(cands[i], lookups[i], cap, t)
         IN IF r.kind = "throw"
            THEN [acc EXCEPT !.threw = TRUE, !.cause = r.cause]
            ELSE IF r.kind = "skip"
            THEN planLoop(cands, lookups, cap, t, i + 1, acc)
            ELSE planLoop(cands, lookups, cap, t, i + 1,
                    [acc EXCEPT !.items = Append(@, r.item),
                                !.execBuilt = @ + r.built,
                                !.trace = Append(@,
                                    [cand |-> cands[i],
                                     lookup |-> IF cands[i].status = "exec_ready"
                                                   /\ Missing(cands[i].bestDebt)
                                                THEN lookups[i] ELSE NoLookup])])

NoPlanFile == [exists |-> FALSE]
\* MAX_TX_GAS_PRICE_WEI of the planner's environment; 0 when unset
PlanEnvCaps == {0, 5}

planCmd ==
    /\ planTrace.runs < MaxPlans
    /\ \E cap \in PlanEnvCaps :
       \E lookups \in [1..Len(candidates) -> Lookups] :
         LET r == planLoop(candidates, lookups, cap, now, 1,
                           [items |-> <<>>, execBuilt |-> 0, trace |-> <<>>,
                            threw |-> FALSE, cause |-> "none"])
         IN IF r.threw
            THEN /\ planTrace' = [runs |-> planTrace.runs + 1, threw |-> TRUE,
                                  items |-> planTrace.items, cause |-> r.cause]
                 /\ plan' = plan
            ELSE /\ plan' = [exists |-> TRUE, items |-> r.items,
                             generatedAt |-> now, execBuilt |-> r.execBuilt]
                 /\ planTrace' = [runs |-> planTrace.runs + 1, threw |-> FALSE,
                                  items |-> r.trace]
    /\ UNCHANGED auxVars
    /\ UNCHANGED <<now, ticks, blacklist, ex, txExec>>
    /\ UNCHANGED scanVars

(***************************************************************************)
(* Execution safety layer                                                  *)
(***************************************************************************)
maxAgeSec == 90
\* Date.parse(plan.generatedAt ?? "") of a plan whose generatedAt is
\* missing or is no date: not a number, and no time since the epoch
NaN == -1
ORDER_DEADLINE_SEC == 180
MIN_DEADLINE_SEC == 60

\* cfg.MAX_TX_GAS_PRICE_WEI of the executing process
CfgCaps == {5, 10}
\* publicClient.getGasPrice()
GasPrices == {3, 8}
\* lower-cased error texts, by the keywords they contain
ErrMsgs == {{"healthy"}, {"no collateral"}, {"health factor"}, {}}
FsErr == {}

classifyErr(m) ==
    IF "health factor" \in m \/ "healthy" \in m \/ "no collateral" \in m
    THEN "SKIP_HEALTHY" ELSE "FAIL"

isStaleLateCeiling(t, generatedAt) == t - generatedAt > 900 * 1000

\* planAge > maxAgeSec, with planAge = (Date.now() - Date.parse(generatedAt)) / 1000;
\* planAge is NaN when Date.parse is, and NaN > maxAgeSec is false
isStale(t, generatedAt) ==
    IF generatedAt = NaN THEN FALSE
    ELSE t - generatedAt > maxAgeSec * 1000

\* insert x behind every element whose netProfitUsd is not smaller
RECURSIVE insertByProfit(_, _)
insertByProfit(sorted, x) ==
    IF sorted = <<>> THEN <<x>>
    ELSE IF sorted[Len(sorted)].netProfitUsd >= x.netProfitUsd
         THEN Append(sorted, x)
         ELSE Append(insertByProfit(SubSeq(sorted, 1, Len(sorted) - 1), x),
                     sorted[Len(sorted)])

\* .sort((a, b) => Number(b.netProfitUsd) - Number(a.netProfitUsd)), stable
RECURSIVE sortByProfit(_)
sortByProfit(items) ==
    IF items = <<>> THEN <<>>
    ELSE insertByProfit(sortByProfit(SubSeq(items, 1, Len(items) - 1)),
                        items[Len(items)])

selectExecs(items) ==
    sortByProfit(SelectSeq(items,
        LAMBDA x : x.action = "EXEC" /\ x.pass /\ "order" \in DOMAIN x))

\* the order object built right before the try block
refreshOrder(selectedOrder, refreshedDeadline, refreshedNonce) ==
    [selectedOrder EXCEPT
        !.repayAmount = BigInt(selectedOrder.repayAmount),
        !.amountOutMin = BigInt(selectedOrder.amountOutMin),
        !.minProfit = BigInt(selectedOrder.minProfit),
        !.maxTxGasPrice = BigInt(selectedOrder.maxTxGasPrice),
        !.deadline = refreshedDeadline,
        !.nonce = refreshedNonce]

NoOrder == [borrower |-> "none"]
ExIdle == [pc |-> "idle", runs |-> 0, execs |-> <<>>, tried |-> 0, cfgCap |-> 0,
           refreshedDeadline |-> 0, order |-> NoOrder, log |-> <<>>,
           end |-> "none", startAt |-> 0, planGen |-> 0]

\* `continue` / falling out of the for-loop
nextOrder(e) ==
    IF e.tried + 1 > Len(e.execs)
    THEN [e EXCEPT !.pc = "done", !.end = "no_executable_order"]
    ELSE [e EXCEPT !.pc = "gas"]

execStart ==
    /\ ex.pc \in {"idle", "done"}
    /\ ex.runs < MaxRuns
    /\ \E cfgCap \in CfgCaps :
         LET base == [ExIdle EXCEPT !.runs = ex.runs + 1, !.cfgCap = cfgCap,
                                    !.startAt = now, !.pc = "done"]
         IN IF ~plan.exists
            THEN ex' = [base EXCEPT !.end = "threw"]
            ELSE LET execs == selectExecs(plan.items)
                     withPlan == [base EXCEPT !.planGen = plan.generatedAt,
                                              !.execs = execs]
                 IN IF Len(execs) = 0
                    THEN ex' = [withPlan EXCEPT !.end = "nothing_to_execute"]
                    ELSE IF isStale(now, plan.generatedAt)
                    THEN ex' = [withPlan EXCEPT !.end = "stale"]
                    ELSE ex' = [withPlan EXCEPT
                                  !.pc = "gas",
                                  !.end = "running",
                                  !.refreshedDeadline =
                                      (now \div 1000)
                                      + Max(MIN_DEADLINE_SEC, ORDER_DEADLINE_SEC)]
    /\ UNCHANGED auxVars
    /\ UNCHANGED <<now, ticks, blacklist, txExec>>
    /\ UNCHANGED scanVars
    /\ UNCHANGED planVars

\* top of the for-loop: tried++, gas price cap, order refresh
execGas ==
    /\ ex.pc = "gas"
    /\ \E currentGasPrice \in GasPrices :
         LET tried == ex.tried + 1
             selected == ex.execs[tried]
             e1 == [ex EXCEPT !.tried = tried,
                              !.log = Append(@, [ev |-> "gas", i |-> tried,
                                                 price |-> currentGasPrice])]
         IN IF currentGasPrice > ex.cfgCap
            THEN ex' = nextOrder(e1)
            ELSE ex' = [e1 EXCEPT
                          !.pc = "simulate",
                          !.order = refreshOrder(selected.order,
                                                 ex.refreshedDeadline,
                                                 now + tried)]
    /\ UNCHANGED auxVars
    /\ UNCHANGED <<now, ticks, blacklist, txExec>>
    /\ UNCHANGED scanVars
    /\ UNCHANGED planVars

\* catch block that blacklists generic failures only
catchErrFailOnly(e, msg) ==
    LET selected == e.execs[e.tried]
        bl == IF classifyErr(msg) = "SKIP_HEALTHY" THEN loadBlacklist
              ELSE addToBlacklist(loadBlacklist, selected.borrower, now,
                                  DEFAULT_DURATION_MS)
    IN [bl |-> bl,
        ex |-> nextOrder([e EXCEPT !.log =
                  Append(@, [ev |-> "catch", i |-> e.tried,
                             kind |-> classifyErr(msg),
                             borrower |-> selected.borrower,
                             at |-> now,
                             expiry |-> bl[selected.borrower]])])]

\* the catch block: classify, blacklist the borrower, continue; the
\* handler is one step, Date.now() being read inside addToBlacklist
catchErr(e, msg) ==
    LET selected == e.execs[e.tried]
        bl == addToBlacklist(loadBlacklist, selected.borrower, now,
                             DEFAULT_DURATION_MS)
    IN [bl |-> bl,
        ex |-> nextOrder([e EXCEPT !.log =
                  Append(@, [ev |-> "catch", i |-> e.tried,
                             kind |-> classifyErr(msg),
                             borrower |-> selected.borrower,
                             at |-> now,
                             expiry |-> bl[selected.borrower]])])]

\* simulate step that lets a reverted simulation through to the broadcast
execSimulateUnchecked ==
    /\ ex.pc = "simulate"
    /\ \E ok \in BOOLEAN :
         ex' = [ex EXCEPT !.pc = "broadcast",
                          !.log = Append(@, [ev |-> "sim", i |-> ex.tried,
                                             order |-> ex.order, ok |-> ok,
                                             at |-> now])]
    /\ UNCHANGED auxVars
    /\ UNCHANGED <<now, ticks, blacklist, txExec>>
    /\ UNCHANGED scanVars
    /\ UNCHANGED planVars

execSimulate ==
    /\ ex.pc = "simulate"
    /\ \/ /\ ex' = [ex EXCEPT !.pc = "broadcast",
                              !.log = Append(@, [ev |-> "sim", i |-> ex.tried,
                                                 order |-> ex.order, ok |-> TRUE])]
          /\ UNCHANGED blacklist
       \/ \E msg \in ErrMsgs :
            LET c == catchErr([ex EXCEPT !.log =
                          Append(@, [ev |-> "sim", i |-> ex.tried,
                                     order |-> ex.order, ok |-> FALSE,
                                     at |-> now])], msg)
            IN /\ ex' = c.ex
               /\ blacklist' = c.bl
    /\ UNCHANGED auxVars
    /\ UNCHANGED <<now, ticks, txExec>>
    /\ UNCHANGED scanVars
    /\ UNCHANGED planVars

execBroadcast ==
    /\ ex.pc = "broadcast"
    /\ \/ /\ ex' = [ex EXCEPT !.pc = "record",
                              !.log = Append(@, [ev |-> "bcast", i |-> ex.tried,
                                                 order |-> ex.order, ok |-> TRUE])]
          /\ UNCHANGED blacklist
       \/ \E msg \in ErrMsgs :
            LET c == catchErr([ex EXCEPT !.log =
                          Append(@, [ev |-> "bcast", i |-> ex.tried,
                                     order |-> ex.order, ok |-> FALSE,
                                     at |-> now])], msg)
            IN /\ ex' = c.ex
               /\ blacklist' = c.bl
    /\ UNCHANGED auxVars
    /\ UNCHANGED <<now, ticks, txExec>>
    /\ UNCHANGED scanVars
    /\ UNCHANGED planVars

\* fs.writeFile(tx_exec.json) after the broadcast, still inside the try
execRecord ==
    /\ ex.pc = "record"
    /\ \/ /\ txExec' = [exists |-> TRUE, generatedAt |-> now,
                        borrower |-> ex.execs[ex.tried].borrower,
                        note |-> "LIQUIDATION_SENT"]
          /\ ex' = [ex EXCEPT !.pc = "done", !.end = "sent"]
          /\ UNCHANGED blacklist
       \/ LET c == catchErr(ex, FsErr)
          IN /\ ex' = c.ex
             /\ blacklist' = c.bl
             /\ UNCHANGED txExec
    /\ UNCHANGED auxVars
    /\ UNCHANGED <<now, ticks>>
    /\ UNCHANGED scanVars
    /\ UNCHANGED planVars

(***************************************************************************)
(* Clock and the failure feedback seen by the scanner                      *)
(***************************************************************************)
TickSteps == {1, 90000, 3600000}

Tick ==
    /\ ticks < MaxTicks
    /\ \E d \in TickSteps : now' = now + d
    /\ ticks' = ticks + 1
    /\ UNCHANGED auxVars
    /\ UNCHANGED <<blacklist, ex, txExec>>
    /\ UNCHANGED scanVars
    /\ UNCHANGED planVars

\* time passing between the cycles of the scanner: a moment, or the
\* lifetime of a blacklist entry
ScanTickSteps == {1, DEFAULT_DURATION_MS}

ScanTick ==
    /\ ticks < MaxTicks
    /\ \E d \in ScanTickSteps : now' = now + d
    /\ ticks' = ticks + 1
    /\ UNCHANGED auxVars
    /\ UNCHANGED <<blacklist, ex, txExec>>
    /\ UNCHANGED scanVars
    /\ UNCHANGED planVars

\* time passing during one execCmd invocation and between invocations:
\* a moment, or the staleness ceiling
ExecTickSteps == {1, 90000}

ExecTick ==
    /\ ticks < MaxTicks
    /\ \E d \in ExecTickSteps : now' = now + d
    /\ ticks' = ticks + 1
    /\ UNCHANGED auxVars
    /\ UNCHANGED <<blacklist, ex, txExec>>
    /\ UNCHANGED scanVars
    /\ UNCHANGED planVars

\* an execCmd process, running next to the scanner, blacklists a borrower
BlacklistBorrower ==
    /\ \E a \in {"a1"} :
         /\ blacklist[a] = 0
         /\ blacklist' = addToBlacklist(loadBlacklist, a, now, DEFAULT_DURATION_MS)
    /\ UNCHANGED auxVars
    /\ UNCHANGED <<now, ticks, ex, txExec>>
    /\ UNCHANGED scanVars
    /\ UNCHANGED planVars

(***************************************************************************)
(* Specifications                                                          *)
(***************************************************************************)
NoScan == [kind |-> "sentry", n |-> 0, users |-> <<>>, results |-> <<>>,
           bl |-> EmptyBlacklist, mode |-> "sentry"]
NoTrace == [runs |-> 0, threw |-> FALSE, items |-> <<>>]
NoTxExec == [exists |-> FALSE]
NoPtrFile == [exists |-> FALSE]
NoMine == [n |-> 0]
NoEnc == [n |-> 0]
NoProcs == <<>>
NoExecutor == [deployed |-> FALSE]

\* nothing encoded, no contract call made, no process inside addToBlacklist
InitExt ==
    /\ enc = NoEnc
    /\ executor = NoExecutor
    /\ blProcs = NoProcs

\* a process that has not scanned, planned or executed: every variable
\* but lastScan
InitNoScan ==
    /\ blCalls = <<>>
    /\ syncHead = NoPtrFile
    /\ syncDeep = NoPtrFile
    /\ pad = 0
    /\ mine = NoMine
    /\ InitExt
    /\ now = 0
    /\ ticks = 0
    /\ blacklist = EmptyBlacklist
    /\ prioritySet = <<>>
    /\ cursor = 0
    /\ cycleCount = 0
    /\ plan = NoPlanFile
    /\ planTrace = NoTrace
    /\ ex = ExIdle
    /\ txExec = NoTxExec
    /\ borrowersFile = <<"a1", "a2">>
    /\ dbUsers = borrowersFile
    /\ candidates = <<>>

InitCommon ==
    /\ blCalls = <<>>
    /\ syncHead = NoPtrFile
    /\ syncDeep = NoPtrFile
    /\ pad = 0
    /\ mine = NoMine
    /\ InitExt
    /\ now = 0
    /\ ticks = 0
    /\ blacklist = EmptyBlacklist
    /\ prioritySet = <<>>
    /\ cursor = 0
    /\ cycleCount = 0
    /\ lastScan = NoScan
    /\ plan = NoPlanFile
    /\ planTrace = NoTrace
    /\ ex = ExIdle
    /\ txExec = NoTxExec

\* the scanners: universe known, nothing published yet; the deployed
\* scanCmd is either the sentry daemon or the one-shot scan
Universes == {<<"a1">>, <<"a1", "a2">>}
InitScan ==
    /\ blCalls = <<>>
    /\ syncHead = NoPtrFile
    /\ syncDeep = NoPtrFile
    /\ pad = 0
    /\ mine = NoMine
    /\ InitExt
    /\ now = 0
    /\ ticks = 0
    /\ blacklist = EmptyBlacklist
    /\ prioritySet = <<>>
    /\ cursor = 0
    /\ cycleCount = 0
    /\ lastScan \in {[NoScan EXCEPT !.kind = k] : k \in {"sentry", "oneshot"}}
    /\ plan = NoPlanFile
    /\ planTrace = NoTrace
    /\ ex = ExIdle
    /\ txExec = NoTxExec
    /\ borrowersFile \in Universes
    /\ dbUsers = borrowersFile
    /\ candidates = <<>>

NextScan == SentryCycle \/ ScanOnce \/ BlacklistBorrower \/ ScanTick

SpecScan == InitScan /\ [][NextScan]_vars

\* candidate records as the scanners write them, and as the candidate
\* stream's schema allows them (own asset pair, or the pair left out)
ScanCand(a, hf) ==
    Candidate(getUserHealthDetailed(a, Read(hf, 600, 500)))
OwnCand(a, debt, coll, amount) ==
    [ScanCand(a, 95) EXCEPT !.bestDebt = debt, !.bestCollateral = coll,
                            !.bestDebtAmount = amount]
CandidateFiles ==
    {<<ScanCand("a1", 95)>>,
     <<ScanCand("a1", 95), ScanCand("a2", 0)>>,
     <<ScanCand("a1", 105), ScanCand("a2", 95)>>,
     <<OwnCand("a1", "USDC", "WETH", 7)>>,
     <<OwnCand("a1", "USDC", "WETH", 7), OwnCand("a2", ABSENT, ABSENT, NoAmount)>>,
     <<OwnCand("a1", "DAI", "WBTC", NoAmount), OwnCand("a2", "USDC", ZERO_ADDRESS, 7)>>}

InitPlan ==
    /\ InitCommon
    /\ borrowersFile = <<"a1", "a2">>
    /\ dbUsers = borrowersFile
    /\ candidates \in CandidateFiles

NextPlan == planCmd \/ Tick

SpecPlan == InitPlan /\ [][NextPlan]_vars

\* the plans execCmd starts from: what planCmd writes at time 0 for these
\* candidate files when every lookup finds the same two-reserve position
ExecLookup == [throws |-> FALSE, pos |-> Position([WETH |-> 2], [USDC |-> 7])]
ExecCandidateFiles ==
    {<<ScanCand("a1", 95)>>,
     <<ScanCand("a1", 95), ScanCand("a2", 0)>>,
     <<ScanCand("a1", 105), OwnCand("a2", "USDC", "WETH", 7)>>,
     <<ScanCand("a1", 105)>>}
PlannedFiles ==
    {LET r == planLoop(f, [i \in 1..Len(f) |-> ExecLookup], cap, 0, 1,
                       [items |-> <<>>, execBuilt |-> 0, trace |-> <<>>,
                        threw |-> FALSE, cause |-> "none"])
     IN [exists |-> TRUE, items |-> r.items, generatedAt |-> 0,
         execBuilt |-> r.execBuilt] : f \in ExecCandidateFiles, cap \in PlanEnvCaps}
    \cup {NoPlanFile}

InitExecRest ==
    /\ blCalls = <<>>
    /\ syncHead = NoPtrFile
    /\ syncDeep = NoPtrFile
    /\ pad = 0
    /\ mine = NoMine
    /\ InitExt
    /\ now = 0
    /\ ticks = 0
    /\ blacklist = EmptyBlacklist
    /\ prioritySet = <<>>
    /\ cursor = 0
    /\ cycleCount = 0
    /\ lastScan = NoScan
    /\ borrowersFile = <<"a1", "a2">>
    /\ dbUsers = borrowersFile
    /\ candidates = <<>>
    /\ planTrace = NoTrace
    /\ ex = ExIdle
    /\ txExec = NoTxExec

InitExec == InitExecRest /\ plan \in PlannedFiles

\* tx_plan.json files whose generatedAt is missing or is no date
UnstampedFiles ==
    {[p EXCEPT !.generatedAt = NaN] : p \in PlannedFiles \ {NoPlanFile}}

InitStamp == InitExecRest /\ plan \in UnstampedFiles

NextExec ==
    \/ execStart \/ execGas \/ execSimulate \/ execBroadcast \/ execRecord
    \/ ExecTick

SpecExec == InitExec /\ [][NextExec]_vars

SpecStamp == InitStamp /\ [][NextExec]_vars

\* execCmd next to a second execCmd process that meets a failure on a1
\* and blacklists it
NextExecPair == NextExec \/ BlacklistBorrower

SpecExecPair == InitExec /\ [][NextExecPair]_vars

\* the health engine called directly: the account lists of one batch
HealthBatches == {<<>>, <<"a1">>, <<"a1", "a2">>, <<"a2", "a3">>}

healthBatchCall ==
    /\ lastScan.kind = "health"
    /\ lastScan.n < MaxCycles
    /\ \E users \in HealthBatches : \E batchOk \in BOOLEAN :
       \E reads \in ReadsFor(users) :
         lastScan' = [kind |-> "health", n |-> lastScan.n + 1,
                      users |-> users,
                      results |-> getUsersHealthBatch(users, batchOk, reads),
                      bl |-> EmptyBlacklist,
                      batchOk |-> batchOk,
                      reads |-> reads]
    /\ UNCHANGED auxVars
    /\ UNCHANGED <<now, ticks, blacklist, borrowersFile, dbUsers, prioritySet,
                   cursor, cycleCount, candidates, plan, planTrace, ex, txExec>>

InitHealth ==
    /\ InitNoScan
    /\ lastScan = [NoScan EXCEPT !.kind = "health"]

NextHealth == healthBatchCall

SpecHealth == InitHealth /\ [][NextHealth]_vars

(***************************************************************************)
(* Discovery: the miner pass of scanCmd and its two sync pointers          *)
(***************************************************************************)
MAX_WINDOW == 10000
SHORT_WINDOW == 1000
BACKFILL_FLOOR == 10000000
UNIVERSE_THRESHOLD == 50000
CATCHUP_WINDOWS == 5

PtrFile(block) == [exists |-> TRUE, block |-> block]
\* lastScanned: 0 unless sync_head.json can be read
readLastScanned(f) == IF f.exists THEN f.block ELSE 0
\* deepHead: the chain tip unless sync_deep.json can be read
readDeepHead(f, currentBlock) == IF f.exists THEN f.block ELSE currentBlock
\* dbUsers.length
universeLength(users) == pad + Len(users)

\* the window policy without the backfill branch
miningWindowForwardOnly(lastScanned, deepHeadRead, currentBlock, universeLen) ==
    LET fwdFrom == IF lastScanned = 0 THEN currentBlock - MAX_WINDOW
                   ELSE lastScanned + 1
        fwdTo == IF fwdFrom + MAX_WINDOW > currentBlock THEN currentBlock
                 ELSE fwdFrom + MAX_WINDOW
    IN IF fwdFrom < currentBlock - MAX_WINDOW * CATCHUP_WINDOWS
       THEN [fromBlock |-> currentBlock - MAX_WINDOW,
             toBlock |-> (currentBlock - MAX_WINDOW) + MAX_WINDOW,
             isBackfill |-> FALSE]
       ELSE [fromBlock |-> fwdFrom, toBlock |-> fwdTo, isBackfill |-> FALSE]

\* the window policy: which blocks to fetch, and in which direction
miningWindow(lastScanned, deepHeadRead, currentBlock, universeLen) ==
    LET fwdFrom == IF lastScanned = 0 THEN currentBlock - MAX_WINDOW
                   ELSE lastScanned + 1
        fwdTo == IF fwdFrom + MAX_WINDOW > currentBlock THEN currentBlock
                 ELSE fwdFrom + MAX_WINDOW
    IN IF universeLen < UNIVERSE_THRESHOLD
       THEN LET deepHead == IF deepHeadRead = 0 THEN currentBlock ELSE deepHeadRead
                toBlock == deepHead - 1
                fromBlock == IF toBlock - MAX_WINDOW < BACKFILL_FLOOR
                             THEN toBlock - SHORT_WINDOW
                             ELSE toBlock - MAX_WINDOW
            IN [fromBlock |-> fromBlock, toBlock |-> toBlock, isBackfill |-> TRUE]
       ELSE IF fwdFrom < currentBlock - MAX_WINDOW * CATCHUP_WINDOWS
            THEN [fromBlock |-> currentBlock - MAX_WINDOW,
                  toBlock |-> (currentBlock - MAX_WINDOW) + MAX_WINDOW,
                  isBackfill |-> FALSE]
            ELSE [fromBlock |-> fwdFrom, toBlock |-> fwdTo, isBackfill |-> FALSE]

\* a miner that stores its pointer although the forward window is empty
upToDateNever(w) == FALSE

\* nothing to fetch: the forward window is empty
upToDate(w) == ~w.isBackfill /\ w.fromBlock > w.toBlock

\* client.getBlockNumber(): the answers of RPC nodes, one of them lagging
ChainTips == {10012000, 10030000, 10070000}
\* a hex string by its length in characters and the account its last 40
\* digits spell; two strings of different length are different strings
TOPIC_CHARS == 66
ADDR_CHARS == 42
Hex(len, low) == [len |-> len, low |-> low]
\* a 32-byte topic that holds an address, left-padded with zeros
Topic(addr) == Hex(TOPIC_CHARS, addr)
\* the string literal "0x0000000000000000000000000000000000000000"
ZeroAddressHex == Hex(ADDR_CHARS, ZERO_ADDRESS)
\* `0x${hex.substring(26)}`
addressOf(hex) == hex.low
\* topics[0] of every log: the hash of the event signature
EVENT_SIG == Topic("sig")

\* addIfAddr of the daemon's miner, applied to l.topics[slot]
addIfAddr(uniqueUsers, topics, slot) ==
    IF slot + 1 > Len(topics) THEN uniqueUsers
    ELSE LET hex == topics[slot + 1]
         IN IF hex.len = TOPIC_CHARS /\ hex # ZeroAddressHex
            THEN SetAdd(uniqueUsers, addressOf(hex))
            ELSE uniqueUsers

\* addIfAddr of the one-shot scanner, applied to l.topics[slot]
addIfAddrScraper(uniqueUsers, topics, slot) ==
    IF slot + 1 > Len(topics) THEN uniqueUsers
    ELSE LET hex == topics[slot + 1]
         IN IF hex.len = TOPIC_CHARS
            THEN LET addr == addressOf(hex)
                 IN IF addr # ZERO_ADDRESS THEN SetAdd(uniqueUsers, addr)
                    ELSE uniqueUsers
            ELSE uniqueUsers

\* for (const l of logs) of the daemon's miner
RECURSIVE minedUsers(_, _, _)
minedUsers(logs, i, uniqueUsers) ==
    IF i > Len(logs) THEN uniqueUsers
    ELSE minedUsers(logs, i + 1,
             addIfAddr(addIfAddr(addIfAddr(uniqueUsers, logs[i], 1),
                                 logs[i], 2), logs[i], 3))

\* for (const l of logs) of the one-shot scanner
RECURSIVE scrapedUsers(_, _, _)
scrapedUsers(logs, i, uniqueUsers) ==
    IF i > Len(logs) THEN uniqueUsers
    ELSE scrapedUsers(logs, i + 1,
             addIfAddrScraper(addIfAddrScraper(addIfAddrScraper(
                 uniqueUsers, logs[i], 1), logs[i], 2), logs[i], 3))

\* the logs client.getLogs answers with, each log by its topics: none; one
\* user in slot 1; a user in slots 1 and 2; two logs naming two users; a
\* Supply whose indexed referral code is 0
FetchedLogs ==
    {<<>>,
     << <<EVENT_SIG, Topic("a2")>> >>,
     << <<EVENT_SIG, Topic("a3"), Topic("a3")>> >>,
     << <<EVENT_SIG, Topic("a4")>>, <<EVENT_SIG, Topic("a5"), Topic("a4")>> >>,
     << <<EVENT_SIG, Topic("a2"), Topic("a2"), Topic(ZERO_ADDRESS)>> >>}
\* how the try block of the miner ends
MineOutcomes == {"mined", "getLogs_failed", "universe_write_failed",
                 "pointer_write_failed"}

\* the miner block of scanCmd; inProcess: the pass runs in the process
\* whose in-memory universe is dbUsers (otherwise in a process of its own,
\* mode mining, which returns right after the pass)
minerPass(inProcess) ==
    \E currentBlock \in ChainTips : \E logs \in FetchedLogs :
    \E outcome \in MineOutcomes :
      LET users == borrowersFile
          w == miningWindow(readLastScanned(syncHead),
                            readDeepHead(syncDeep, currentBlock),
                            currentBlock, universeLength(users))
          updatedUsers == minedUsers(logs, 1, Dedup(users))
          grew == Len(updatedUsers) > Len(users)
          rec == [n |-> mine.n + 1, fromBlock |-> w.fromBlock,
                  toBlock |-> w.toBlock, isBackfill |-> w.isBackfill,
                  universeLen |-> universeLength(users),
                  lastScanned |-> readLastScanned(syncHead),
                  deepRead |-> readDeepHead(syncDeep, currentBlock)]
      IN IF upToDate(w)
         THEN /\ mine' = rec @@ [outcome |-> "up_to_date"]
              /\ dbUsers' = IF inProcess THEN users ELSE dbUsers
              /\ UNCHANGED <<borrowersFile, syncHead, syncDeep>>
         ELSE IF outcome = "getLogs_failed"
         THEN /\ mine' = rec @@ [outcome |-> outcome]
              /\ dbUsers' = IF inProcess THEN users ELSE dbUsers
              /\ UNCHANGED <<borrowersFile, syncHead, syncDeep>>
         ELSE IF outcome = "universe_write_failed"
         THEN \* dbUsers is assigned before writeJson(dbPath) is awaited
              /\ grew
              /\ mine' = rec @@ [outcome |-> outcome, logs |-> logs]
              /\ dbUsers' = IF inProcess THEN updatedUsers ELSE dbUsers
              /\ UNCHANGED <<borrowersFile, syncHead, syncDeep>>
         ELSE /\ mine' = rec @@ [outcome |-> outcome, logs |-> logs]
              /\ dbUsers' = IF ~inProcess THEN dbUsers
                            ELSE IF grew THEN updatedUsers ELSE users
              /\ borrowersFile' = IF grew THEN updatedUsers ELSE borrowersFile
              /\ IF outcome = "pointer_write_failed"
                 THEN UNCHANGED <<syncHead, syncDeep>>
                 ELSE IF w.isBackfill
                 THEN /\ syncDeep' = PtrFile(w.fromBlock)
                      /\ UNCHANGED syncHead
                 ELSE /\ syncHead' = PtrFile(w.toBlock)
                      /\ UNCHANGED syncDeep

\* one scanCmd invocation up to the end of its miner block
scanMine ==
    /\ mine.n < MaxMines
    /\ minerPass(TRUE)
    /\ UNCHANGED <<now, ticks, blacklist, prioritySet, cursor, cycleCount,
                   candidates, lastScan, plan, planTrace, ex, txExec,
                   blCalls, pad>>
    /\ UNCHANGED extVars

\* const mode = options.mode || "mixed"
NoOptions == "none"
ScanOptions == {NoOptions, "mixed", "sentry", "mining"}
modeOf(options) == IF options = NoOptions THEN "mixed" ELSE options

\* a scanCmd that starts the sentry loop in every mode
afterMinerAlwaysSentry(mode) == "sentry"

\* if (mode === "mining") return; otherwise the sentry loop starts
afterMiner(mode) == IF mode = "mining" THEN "returned" ELSE "sentry"

\* data/hot_queue.json: no command of the repository writes it
hotQueueFile == [exists |-> FALSE]

\* the daemon (mode mixed) runs its miner block once, then starts the
\* sentry loop; mode mining returns after the block
scanMineMixed ==
    /\ lastScan.kind \in {"mixed", "mining"}
    /\ minerPass(TRUE)
    /\ lastScan' = [lastScan EXCEPT !.kind = afterMiner(lastScan.mode)]
    /\ UNCHANGED <<now, ticks, blacklist, prioritySet, cursor, cycleCount,
                   candidates, plan, planTrace, ex, txExec, blCalls, pad>>
    /\ UNCHANGED extVars

\* client.getBlockNumber() rejects: the call stands before the miner's try
\* block, so the rejection leaves scanCmd and the daemon never starts its
\* sentry loop
scanMineRejects ==
    /\ lastScan.kind \in {"mixed", "mining"}
    /\ lastScan' = [lastScan EXCEPT !.kind = "ended"]
    /\ UNCHANGED <<now, ticks, blacklist, borrowersFile, dbUsers, prioritySet,
                   cursor, cycleCount, candidates, plan, planTrace, ex, txExec>>
    /\ UNCHANGED auxVars

\* a discovery run (mode mining) in a process of its own, next to the
\* daemon
scanMineElsewhere ==
    /\ mine.n < MaxMines
    /\ minerPass(FALSE)
    /\ UNCHANGED <<now, ticks, blacklist, prioritySet, cursor, cycleCount,
                   candidates, lastScan, plan, planTrace, ex, txExec,
                   blCalls, pad>>
    /\ UNCHANGED extVars

\* the miner pass of the one-shot scanCmd: an RPC or write error ends the
\* command, the grown universe is kept in memory only
scanMineOnce ==
    /\ mine.n < MaxMines
    /\ \E currentBlock \in ChainTips : \E logs \in FetchedLogs :
       \E ok \in BOOLEAN :
         LET users == borrowersFile
             w == miningWindow(readLastScanned(syncHead),
                               readDeepHead(syncDeep, currentBlock),
                               currentBlock, universeLength(users))
             updatedUsers == scrapedUsers(logs, 1, Dedup(users))
             grew == Len(updatedUsers) > Len(users)
             rec == [n |-> mine.n + 1, fromBlock |-> w.fromBlock,
                     toBlock |-> w.toBlock, isBackfill |-> w.isBackfill,
                     universeLen |-> universeLength(users),
                     lastScanned |-> readLastScanned(syncHead),
                     deepRead |-> readDeepHead(syncDeep, currentBlock)]
         IN IF upToDate(w)
            THEN /\ mine' = rec @@ [outcome |-> "up_to_date"]
                 /\ dbUsers' = users
                 /\ UNCHANGED <<syncHead, syncDeep>>
            ELSE IF ~ok
            THEN /\ mine' = rec @@ [outcome |-> "threw"]
                 /\ dbUsers' = users
                 /\ UNCHANGED <<syncHead, syncDeep>>
            ELSE /\ mine' = rec @@ [outcome |-> "mined", logs |-> logs]
                 /\ dbUsers' = IF grew THEN updatedUsers ELSE users
                 /\ IF w.isBackfill
                    THEN /\ syncDeep' = PtrFile(w.fromBlock)
                         /\ UNCHANGED syncHead
                    ELSE /\ syncHead' = PtrFile(w.toBlock)
                         /\ UNCHANGED syncDeep
    /\ UNCHANGED <<now, ticks, blacklist, borrowersFile, prioritySet, cursor,
                   cycleCount, candidates, lastScan, plan, planTrace, ex,
                   txExec, blCalls, pad>>
    /\ UNCHANGED extVars

\* the pointer files and universes a miner pass starts from
HeadFiles == {NoPtrFile, PtrFile(10012000)}
DeepFiles == {NoPtrFile, PtrFile(10001999), PtrFile(1001)}
Pads == {0, 49998}

InitMine ==
    /\ now = 0
    /\ ticks = 0
    /\ blacklist = EmptyBlacklist
    /\ prioritySet = <<>>
    /\ cursor = 0
    /\ cycleCount = 0
    /\ lastScan = NoScan
    /\ plan = NoPlanFile
    /\ planTrace = NoTrace
    /\ ex = ExIdle
    /\ txExec = NoTxExec
    /\ blCalls = <<>>
    /\ candidates = <<>>
    /\ mine = NoMine
    /\ InitExt
    /\ borrowersFile \in Universes
    /\ dbUsers = borrowersFile
    /\ pad \in Pads
    /\ syncHead \in HeadFiles
    /\ syncDeep \in DeepFiles

NextMine == scanMine \/ scanMineOnce

SpecMine == InitMine /\ [][NextMine]_vars

\* the daemon next to discovery runs: started in mode mixed or sentry, on
\* a universe file that is still missing or holds one account, discovery
\* having stored a backfill head before
InitReload ==
    /\ now = 0
    /\ ticks = 0
    /\ blacklist = EmptyBlacklist
    /\ prioritySet = <<>>
    /\ cursor = 0
    /\ cycleCount = 0
    /\ lastScan \in {[NoScan EXCEPT !.kind = k, !.mode = k] :
                          k \in {"mixed", "sentry"}}
    /\ plan = NoPlanFile
    /\ planTrace = NoTrace
    /\ ex = ExIdle
    /\ txExec = NoTxExec
    /\ blCalls = <<>>
    /\ syncHead = NoPtrFile
    /\ syncDeep = PtrFile(10001999)
    /\ pad = 0
    /\ mine = NoMine
    /\ InitExt
    /\ borrowersFile \in {<<>>, <<"a3">>}
    /\ dbUsers = borrowersFile
    /\ candidates = <<>>

\* scanCmd started once, in any mode, with no other process next to it
InitModes ==
    /\ now = 0
    /\ ticks = 0
    /\ blacklist = EmptyBlacklist
    /\ prioritySet = <<>>
    /\ cursor = 0
    /\ cycleCount = 0
    /\ \E o \in ScanOptions :
         lastScan = [NoScan EXCEPT !.kind = modeOf(o), !.mode = modeOf(o)]
    /\ plan = NoPlanFile
    /\ planTrace = NoTrace
    /\ ex = ExIdle
    /\ txExec = NoTxExec
    /\ blCalls = <<>>
    /\ syncHead = NoPtrFile
    /\ syncDeep = PtrFile(10001999)
    /\ pad = 0
    /\ mine = NoMine
    /\ enc = NoEnc
    /\ executor = NoExecutor
    /\ blProcs = NoProcs
    /\ borrowersFile \in {<<>>, <<"a3">>}
    /\ dbUsers = borrowersFile
    /\ candidates = <<>>

\* two processes that each call addToBlacklist once; the calls of one
\* process are synchronous, the file is shared
Procs == {1, 2}
ProcIdle == [pc |-> "idle"]
\* how many file accesses the processes have made so far
RECURSIVE StepsOf(_)
StepsOf(ps) ==
    IF ps = {} THEN 0
    ELSE LET p == CHOOSE q \in ps : TRUE
             n == IF blProcs[p].pc = "idle" THEN 0
                  ELSE IF blProcs[p].pc = "loaded" THEN 1 ELSE 2
         IN n + StepsOf(ps \ {p})

\* const bl = loadBlacklist(), the cleanup of expired keys and the new
\* entry, all on the object in memory
blLoad(p) ==
    /\ blProcs[p].pc = "idle"
    /\ \E addr \in {"a1", "A1", "a2", "a3"} :
         blProcs' = [blProcs EXCEPT ![p] =
             [pc |-> "loaded", addr |-> addr, at |-> now,
              bl |-> addToBlacklist(loadBlacklist, addr, now,
                                    DEFAULT_DURATION_MS),
              loadStep |-> StepsOf(Procs) + 1]]
    /\ UNCHANGED <<blCalls, syncHead, syncDeep, pad, mine, enc, executor>>
    /\ UNCHANGED <<now, ticks, blacklist, ex, txExec>>
    /\ UNCHANGED scanVars
    /\ UNCHANGED planVars

\* saveBlacklist(bl): the file is replaced by the object in memory
blSave(p) ==
    /\ blProcs[p].pc = "loaded"
    /\ blacklist' = blProcs[p].bl
    /\ blProcs' = [blProcs EXCEPT ![p] =
           [pc |-> "done", addr |-> blProcs[p].addr, at |-> blProcs[p].at,
            loadStep |-> blProcs[p].loadStep,
            saveStep |-> StepsOf(Procs) + 1]]
    /\ UNCHANGED <<blCalls, syncHead, syncDeep, pad, mine, enc, executor>>
    /\ UNCHANGED <<now, ticks, ex, txExec>>
    /\ UNCHANGED scanVars
    /\ UNCHANGED planVars

InitRace ==
    /\ now = 0
    /\ ticks = 0
    /\ blacklist = EmptyBlacklist
    /\ prioritySet = <<>>
    /\ cursor = 0
    /\ cycleCount = 0
    /\ lastScan = NoScan
    /\ plan = NoPlanFile
    /\ planTrace = NoTrace
    /\ ex = ExIdle
    /\ txExec = NoTxExec
    /\ blCalls = <<>>
    /\ syncHead = NoPtrFile
    /\ syncDeep = NoPtrFile
    /\ pad = 0
    /\ mine = NoMine
    /\ enc = NoEnc
    /\ executor = NoExecutor
    /\ blProcs = [p \in Procs |-> ProcIdle]
    /\ borrowersFile = <<"a1", "a2">>
    /\ dbUsers = borrowersFile
    /\ candidates = <<>>

NextRace == (\E p \in Procs : blLoad(p)) \/ (\E p \in Procs : blSave(p)) \/ Tick

SpecRace == InitRace /\ [][NextRace]_vars

NextModes == scanMineMixed \/ scanMineRejects \/ SentryCycle

SpecModes == InitModes /\ [][NextModes]_vars

\* the same with every step of the command taken as soon as it can be
SpecModesFair == SpecModes /\ WF_vars(NextModes)

NextReload ==
    scanMineMixed \/ scanMineRejects \/ scanMineElsewhere \/ SentryCycle

SpecReload == InitReload /\ [][NextReload]_vars

\* the sentry and the planner as two processes on one candidate file
InitPublish ==
    /\ InitCommon
    /\ borrowersFile \in {<<"a2">>, <<"a2", "a3">>}
    /\ dbUsers = borrowersFile
    /\ candidates = <<>>

NextPublish == SentryCycle \/ planCmd

\* the sentry on a universe that fits one chunk, and on one of 60
\* accounts that needs two; an executor process blacklists a1 meanwhile
InitRotate ==
    /\ InitCommon
    /\ borrowersFile \in {<<"a1", "a2">>, <<"a1", "a2">> \o Fillers}
    /\ dbUsers = borrowersFile
    /\ candidates = <<>>

NextRotate == SentryCycle \/ BlacklistBorrower

SpecRotate == InitRotate /\ [][NextRotate]_vars

SpecPublish == InitPublish /\ [][NextPublish]_vars

\* the blacklist library called directly: any spelling of an account,
\* the default cooldown or a shorter one
Durations == {90000, DEFAULT_DURATION_MS}

addToBlacklistCall ==
    /\ Len(blCalls) < MaxAdds
    /\ \E addr \in AddrSpellings : \E durationMs \in Durations :
         /\ blacklist' = addToBlacklist(loadBlacklist, addr, now, durationMs)
         /\ blCalls' = Append(blCalls, [addr |-> addr, at |-> now,
                                        durationMs |-> durationMs])
    /\ UNCHANGED <<now, ticks, plan, planTrace, ex, txExec,
                   syncHead, syncDeep, pad, mine>>
    /\ UNCHANGED extVars
    /\ UNCHANGED scanVars

InitBlacklist ==
    /\ InitCommon
    /\ borrowersFile = <<"a1", "a2">>
    /\ dbUsers = borrowersFile
    /\ candidates = <<>>

NextBlacklist == addToBlacklistCall \/ Tick

SpecBlacklist == InitBlacklist /\ [][NextBlacklist]_vars

(***************************************************************************)
(* Swap path encoding, digit by digit                                      *)
(***************************************************************************)
FEE_HEX_CHARS == 6
HEX_BASE == 16

\* an address string: with or without the 0x prefix, 40 hex digits
AddrString(has0x, k) ==
    [has0x |-> has0x, digits |-> [i \in 1..(ADDR_CHARS - 2) |-> (k * i) % HEX_BASE]]
\* h.startsWith("0x") ? h.slice(2) : h
hexNo0x(h) == h.digits

\* Number.prototype.toString(16) of a non-negative integer
RECURSIVE toString16(_)
toString16(n) ==
    IF n < HEX_BASE THEN <<n>>
    ELSE toString16(n \div HEX_BASE) \o <<n % HEX_BASE>>
\* String.prototype.padStart(len, "0"): never shortens
padStart(str, len) ==
    IF Len(str) >= len THEN str
    ELSE [i \in 1..(len - Len(str)) |-> 0] \o str

\* a fee written without the padding
padFee3BytesUnpadded(fee) == toString16(fee)

\* padFee3Bytes: f.toString(16).padStart(6, "0")
padFee3Bytes(fee) == padStart(toString16(fee), FEE_HEX_CHARS)

\* encodeV3Path of the planner on hex digits; the result without its "0x"
RECURSIVE encodeV3PathHexLoop(_, _, _, _)
encodeV3PathHexLoop(tokens, fees, i, out) ==
    IF i > Len(tokens) - 1 THEN out
    ELSE LET a == hexNo0x(tokens[i])
             b == hexNo0x(tokens[i + 1])
             feeHex == padFee3Bytes(fees[i])
         IN encodeV3PathHexLoop(tokens, fees, i + 1,
                (IF i = 1 THEN out \o a ELSE out) \o feeHex \o b)
encodeV3PathHex(tokens, fees) == encodeV3PathHexLoop(tokens, fees, 1, <<>>)

\* encodeV3Path of the dry-run script: one hop; getAddress changes the
\* case of the digits only
encodeV3PathSingle(tokenIn, fee, tokenOut) ==
    hexNo0x(tokenIn) \o padStart(toString16(fee), FEE_HEX_CHARS)
        \o hexNo0x(tokenOut)

\* the inputs of one call: one to three tokens, a fee per hop
PathTokens == {AddrString(TRUE, 1), AddrString(TRUE, 7), AddrString(FALSE, 0)}
PathFees == {0, 500, 3000, 10000, 65536, 16777215}
TokenSeqs ==
    UNION {[1..n -> PathTokens] : n \in 1..3}
FeeSeqs(n) == [1..n -> PathFees]

encodeCall ==
    /\ enc.n < MaxEncodes
    /\ \E tokens \in TokenSeqs : \E fees \in FeeSeqs(Len(tokens) - 1) :
         enc' = [n |-> enc.n + 1, tokens |-> tokens, fees |-> fees,
                 out |-> encodeV3PathHex(tokens, fees),
                 single |-> IF Len(tokens) = 2
                            THEN encodeV3PathSingle(tokens[1], fees[1],
                                                    tokens[2])
                            ELSE <<>>]
    /\ UNCHANGED <<now, ticks, blacklist, plan, planTrace, ex, txExec,
                   blCalls, syncHead, syncDeep, pad, mine, executor, blProcs>>
    /\ UNCHANGED scanVars

InitPath ==
    /\ InitNoScan
    /\ lastScan = NoScan

NextPath == encodeCall

SpecPath == InitPath /\ [][NextPath]_vars

(***************************************************************************)
(* LiquidationExecutor: the settlement contract                            *)
(***************************************************************************)
\* msg.sender of a call: the deployer, a keeper, a stranger
Senders == {"dep", "op", "eve"}
Nonces == {1, 2}
\* block.timestamp and tx.gasprice of every call
BLOCK_TIMESTAMP == 1000
TX_GASPRICE == 5
\* an order as _precheck reads it
ChainOrder(nonce, deadline, repayAmount) ==
    [debtAsset |-> "USDC", collateralAsset |-> "WETH", borrower |-> "a1",
     repayAmount |-> repayAmount, deadline |-> deadline,
     maxTxGasPrice |-> 0, nonce |-> nonce]
ChainOrders ==
    {ChainOrder(n, BLOCK_TIMESTAMP + 60, 250) : n \in Nonces}
    \cup {ChainOrder(1, BLOCK_TIMESTAMP - 1, 250)}

\* _precheck: the error it reverts with, or "none"; the treasury is never
\* the zero address (constructor and setTreasury refuse it)
precheck(order) ==
    IF order.deadline < BLOCK_TIMESTAMP THEN "DeadlineExpired"
    ELSE IF order.maxTxGasPrice # 0 /\ TX_GASPRICE > order.maxTxGasPrice
    THEN "GasPriceTooHigh"
    ELSE IF order.debtAsset = ZERO_ADDRESS \/ order.collateralAsset = ZERO_ADDRESS
    THEN "ZeroAddress"
    ELSE IF order.borrower = ZERO_ADDRESS THEN "ZeroAddress"
    ELSE IF order.repayAmount = 0 THEN "AmountMismatch"
    ELSE "none"

\* a modifier that lets every caller through
onlyOperatorOpen(c, sender) == "none"

\* modifier onlyOperator: the error it reverts with, or "none"
onlyOperator(c, sender) ==
    IF c.operatorModeEnabled /\ sender \notin c.isOperator THEN "NotOperator"
    ELSE IF ~c.operatorModeEnabled /\ sender # c.owner THEN "NotOperator"
    ELSE "none"

\* the record of one call: a revert leaves the storage as it was
Reverted(fn, sender, err, started) ==
    executor' = [executor EXCEPT
                    !.calls = @ + 1,
                    !.last = [fn |-> fn, sender |-> sender, err |-> err,
                              started |-> started]]
CallDone(c, fn, sender) ==
    executor' = [c EXCEPT
                    !.calls = @ + 1,
                    !.last = [fn |-> fn, sender |-> sender, err |-> "none",
                              started |-> FALSE]]
ContractFrame ==
    /\ UNCHANGED <<now, ticks, blacklist, plan, planTrace, ex, txExec,
                   blCalls, syncHead, syncDeep, pad, mine, enc, blProcs>>
    /\ UNCHANGED scanVars
CanCall == executor.deployed /\ executor.calls < MaxCalls

\* constructor: the deployer owns the contract and is its first operator
deploy ==
    /\ ~executor.deployed
    /\ executor' = [deployed |-> TRUE, owner |-> "dep", pendingOwner |-> "none",
                    paused |-> FALSE, operatorModeEnabled |-> TRUE,
                    isOperator |-> {"dep"}, signer |-> ZERO_ADDRESS,
                    usedNonces |-> {}, executed |-> [n \in Nonces |-> 0],
                    calls |-> 0,
                    last |-> [fn |-> "constructor", sender |-> "dep",
                              err |-> "none", started |-> FALSE]]
    /\ ContractFrame

\* an onlyOwner function: fn with the storage it leaves
OwnerCall(fn, sender, c) ==
    IF sender # executor.owner
    THEN Reverted(fn, sender, "OwnableUnauthorizedAccount", FALSE)
    ELSE CallDone(c, fn, sender)

setSigner ==
    /\ CanCall
    /\ \E sender \in Senders : \E s \in {"signer", ZERO_ADDRESS} :
         OwnerCall("setSigner", sender, [executor EXCEPT !.signer = s])
    /\ ContractFrame

setOperator ==
    /\ CanCall
    /\ \E sender \in Senders : \E op \in {"op", "dep"} :
       \E allowed \in BOOLEAN :
         OwnerCall("setOperator", sender,
                   [executor EXCEPT !.isOperator =
                        IF allowed THEN @ \cup {op} ELSE @ \ {op}])
    /\ ContractFrame

setOperatorModeEnabled ==
    /\ CanCall
    /\ \E sender \in Senders : \E enabled \in BOOLEAN :
         OwnerCall("setOperatorModeEnabled", sender,
                   [executor EXCEPT !.operatorModeEnabled = enabled])
    /\ ContractFrame

\* Pausable: pause() needs the contract running, unpause() needs it paused
pause ==
    /\ CanCall
    /\ \E sender \in Senders :
         IF sender = executor.owner /\ executor.paused
         THEN Reverted("pause", sender, "EnforcedPause", FALSE)
         ELSE OwnerCall("pause", sender, [executor EXCEPT !.paused = TRUE])
    /\ ContractFrame

unpause ==
    /\ CanCall
    /\ \E sender \in Senders :
         IF sender = executor.owner /\ ~executor.paused
         THEN Reverted("unpause", sender, "ExpectedPause", FALSE)
         ELSE OwnerCall("unpause", sender, [executor EXCEPT !.paused = FALSE])
    /\ ContractFrame

\* Ownable2Step: the owner names a successor, the successor accepts
transferOwnership ==
    /\ CanCall
    /\ \E sender \in Senders : \E newOwner \in {"op"} :
         OwnerCall("transferOwnership", sender,
                   [executor EXCEPT !.pendingOwner = newOwner])
    /\ ContractFrame

acceptOwnership ==
    /\ CanCall
    /\ \E sender \in Senders :
         IF sender # executor.pendingOwner
         THEN Reverted("acceptOwnership", sender,
                       "OwnableUnauthorizedAccount", FALSE)
         ELSE CallDone([executor EXCEPT !.owner = sender,
                                        !.pendingOwner = "none"],
                       "acceptOwnership", sender)
    /\ ContractFrame

\* aavePool.flashLoanSimple and the callback: the loan is started; it
\* settles, or the callback reverts and the whole call with it
FlashLoan(c, fn, sender, order, loanOk) ==
    IF ~loanOk THEN Reverted(fn, sender, "ProfitTooLow", TRUE)
    ELSE executor' = [c EXCEPT
                         !.calls = @ + 1,
                         !.executed[order.nonce] = @ + 1,
                         !.last = [fn |-> fn, sender |-> sender,
                                   err |-> "none", started |-> TRUE]]

execute ==
    /\ CanCall
    /\ \E sender \in Senders : \E order \in ChainOrders :
       \E loanOk \in BOOLEAN :
         LET gate == onlyOperator(executor, sender)
             pre == precheck(order)
         IN IF gate # "none" THEN Reverted("execute", sender, gate, FALSE)
            ELSE IF executor.paused
            THEN Reverted("execute", sender, "EnforcedPause", FALSE)
            ELSE IF pre # "none" THEN Reverted("execute", sender, pre, FALSE)
            ELSE FlashLoan(executor, "execute", sender, order, loanOk)
    /\ ContractFrame

executeWithSig ==
    /\ CanCall
    /\ \E sender \in Senders : \E order \in ChainOrders :
       \E sigOk \in BOOLEAN : \E loanOk \in BOOLEAN :
         LET pre == precheck(order)
             fn == "executeWithSig"
         IN IF executor.paused THEN Reverted(fn, sender, "EnforcedPause", FALSE)
            ELSE IF executor.signer = ZERO_ADDRESS
            THEN Reverted(fn, sender, "InvalidSignature", FALSE)
            ELSE IF pre # "none" THEN Reverted(fn, sender, pre, FALSE)
            ELSE IF order.nonce \in executor.usedNonces
            THEN Reverted(fn, sender, "InvalidSignature", FALSE)
            ELSE IF ~sigOk THEN Reverted(fn, sender, "InvalidSignature", FALSE)
            ELSE FlashLoan([executor EXCEPT !.usedNonces = @ \cup {order.nonce}],
                           fn, sender, order, loanOk)
    /\ ContractFrame

InitExecutor ==
    /\ InitNoScan
    /\ lastScan = NoScan

NextExecutor ==
    \/ deploy \/ setSigner \/ setOperator \/ setOperatorModeEnabled
    \/ pause \/ unpause \/ transferOwnership \/ acceptOwnership
    \/ execute \/ executeWithSig

SpecExecutor == InitExecutor /\ [][NextExecutor]_vars

(***************************************************************************)
(* Properties                                                              *)
(***************************************************************************)
PlanItems == IF plan.exists THEN plan.items ELSE <<>>
ExecItemIdx == {i \in 1..Len(PlanItems) : PlanItems[i].action = "EXEC"}

\* the asset pair a candidate resolves to: its own pair when present and
\* non-zero, otherwise what the just-in-time lookup returns
ResolvedPair(tr) ==
    IF ~Missing(tr.cand.bestDebt) /\ ~Missing(tr.cand.bestCollateral)
    THEN [bestDebt |-> tr.cand.bestDebt, bestCollateral |-> tr.cand.bestCollateral]
    ELSE LET a == getUserAssets(tr.lookup.pos)
         IN [bestDebt |-> a.bestDebt, bestCollateral |-> a.bestCollateral]

\* the raw outstanding amount of the debt asset chosen for a candidate
OutstandingDebt(tr) ==
    IF ~Missing(tr.cand.bestDebt) THEN tr.cand.bestDebtAmount
    ELSE tr.lookup.pos[getUserAssets(tr.lookup.pos).bestDebt].d

\* C1: for every EXEC item the order's debtAsset and collateralAsset are
\* the asset pair resolved for its candidate, both are non-zero, and the
\* swap path starts at that collateral asset and ends at that debt asset.
C1_OrderNamesResolvedPair ==
    \A i \in ExecItemIdx :
        LET o == PlanItems[i].order
            rp == ResolvedPair(planTrace.items[i])
        IN /\ o.debtAsset = rp.bestDebt
           /\ o.collateralAsset = rp.bestCollateral
           /\ o.debtAsset # ZERO_ADDRESS
           /\ o.collateralAsset # ZERO_ADDRESS
           /\ o.uniPath[1] = rp.bestCollateral
           /\ o.uniPath[Len(o.uniPath)] = rp.bestDebt

\* C2: for every order the planner builds, repayAmount is
\* floor(outstandingDebt / 2): twice the repay amount is the outstanding
\* debt or one less, never more.
C2_RepayIsHalfRoundedDown ==
    \A i \in ExecItemIdx :
        LET repay == BigInt(PlanItems[i].order.repayAmount)
            debt == OutstandingDebt(planTrace.items[i])
        IN 2 * repay <= debt /\ debt <= 2 * repay + 1

\* an order was built for an odd outstanding debt
C2_Witness ==
    \E i \in ExecItemIdx :
        /\ OutstandingDebt(planTrace.items[i]) = 7
        /\ BigInt(PlanItems[i].order.repayAmount) = 3

\* C5: in every written plan an item is EXEC iff pass iff it carries an
\* order; only exec_ready candidates get one, every other candidate yields
\* a WATCH item without order; execBuilt is the number of EXEC items.
C5_ExecIffPassIffOrder ==
    plan.exists =>
        /\ Len(plan.items) = Len(candidates)
        /\ \A i \in 1..Len(plan.items) :
             LET it == plan.items[i]
             IN /\ it.borrower = candidates[i].borrower
                /\ it.action \in {"EXEC", "WATCH"}
                /\ (it.action = "EXEC") <=> it.pass
                /\ it.pass <=> ("order" \in DOMAIN it)
                /\ it.action = "EXEC" => candidates[i].status = "exec_ready"
                /\ candidates[i].status # "exec_ready" =>
                       it.action = "WATCH" /\ "order" \notin DOMAIN it
        /\ plan.execBuilt = Cardinality(ExecItemIdx)

\* a plan with an EXEC item next to a WATCH item
C5_Witness ==
    /\ plan.exists
    /\ ExecItemIdx # {}
    /\ \E i \in 1..Len(plan.items) :
         plan.items[i].action = "WATCH" /\ candidates[i].status = "watch"

Evaluated == {j \in 1..Len(lastScan.results) : lastScan.results[j] # NullHealth}
PublishedFor(user) == {i \in 1..Len(candidates) : candidates[i].borrower = user}

\* C3: an evaluated account with health factor >= 1.1 gets no candidate;
\* with 1.0 <= health factor < 1.1 its candidate has status watch, with
\* health factor < 1.0 status exec_ready (an account that is neither dust
\* nor blacklisted does get its candidate).
C3_ClassifierTiers ==
    /\ \A i \in 1..Len(candidates) :
         LET c == candidates[i]
         IN \/ c.healthFactor < 100 /\ c.status = "exec_ready"
            \/ c.healthFactor >= 100 /\ c.healthFactor < 110 /\ c.status = "watch"
    /\ \A j \in Evaluated :
         LET h == lastScan.results[j]
         IN /\ h.healthFactor >= 110 => PublishedFor(h.user) = {}
            /\ ( /\ h.healthFactor < 110
                 /\ h.totalDebtUSD >= 10
                 /\ h.totalCollateralUSD >= 1
                 /\ lastScan.bl[h.user] = 0 )
               => \E i \in PublishedFor(h.user) :
                      candidates[i].healthFactor = h.healthFactor

\* one scan met all three tiers' boundaries: 1.0 published as watch while
\* another account at or above 1.1 was evaluated and dropped
C3_Witness ==
    /\ \E i \in 1..Len(candidates) :
         candidates[i].healthFactor = 100 /\ candidates[i].status = "watch"
    /\ \E j \in Evaluated : lastScan.results[j].healthFactor >= 110

\* C4: no candidate is published for an account whose total debt value is
\* below $10, in the sentry loop and in the one-shot scan.
C4_NoCandidateBelowDustFloor ==
    \A i \in 1..Len(candidates) : candidates[i].totalDebtUSD >= 10

LogIdx == 1..Len(ex.log)
IsAttempt(k, evs) == ex.log[k].ev \in evs

\* C6: an order is broadcast only right after the simulation of that same
\* order, with identical fields, succeeded in the same attempt; an order
\* whose simulation failed is never broadcast.
C6_BroadcastOnlyAfterOwnSimulation ==
    /\ \A k \in LogIdx :
         IsAttempt(k, {"bcast"}) =>
            /\ k > 1
            /\ ex.log[k - 1].ev = "sim"
            /\ ex.log[k - 1].ok
            /\ ex.log[k - 1].i = ex.log[k].i
            /\ ex.log[k - 1].order = ex.log[k].order
            /\ ex.log[k].order.deadline = ex.refreshedDeadline
    /\ \A k \in LogIdx :
         (IsAttempt(k, {"sim"}) /\ ~ex.log[k].ok) =>
            ~\E m \in LogIdx : IsAttempt(m, {"bcast"}) /\ ex.log[m].i = ex.log[k].i

\* an order went out
C6_Witness == \E k \in LogIdx : IsAttempt(k, {"bcast"}) /\ ex.log[k].ok

\* C7: one invocation broadcasts at most one transaction; after the first
\* successful broadcast nothing more is simulated or broadcast.
C7_AtMostOneBroadcast ==
    \A k \in LogIdx :
        (IsAttempt(k, {"bcast"}) /\ ex.log[k].ok) =>
            \A m \in LogIdx : m > k => ~IsAttempt(m, {"sim", "bcast"})

\* C8: a plan generated more than 90 seconds before the invocation ends it
\* before any gas price fetch, simulation, broadcast or blacklisting.
C8_StalePlanAborts ==
    (ex.runs > 0 /\ plan.exists /\ ex.startAt - plan.generatedAt > 90000) =>
        /\ ex.pc = "done"
        /\ ex.log = <<>>
        /\ ex.tried = 0

\* an invocation met a stale plan that holds an order
C8_Witness ==
    /\ ex.end = "stale"
    /\ ex.execs # <<>>
    /\ ex.startAt - plan.generatedAt > 90000

C10_OrderGasCapSkips ==
    \A k \in LogIdx :
        IsAttempt(k, {"gas"}) =>
            LET cap == BigInt(ex.execs[ex.log[k].i].order.maxTxGasPrice)
            IN (cap # 0 /\ ex.log[k].price > cap) =>
                  ~\E m \in LogIdx : /\ IsAttempt(m, {"sim", "bcast", "catch"})
                                     /\ ex.log[m].i = ex.log[k].i

AttemptIdx == {k \in LogIdx : IsAttempt(k, {"sim", "bcast"})}
\* Date.now() as read when the order of log entry k was refreshed
RefreshedAt(k) == ex.log[k].order.nonce - ex.log[k].i

\* the part of C11 about the persisted plan and the nonces: no attempt
\* carries the plan's deadline or nonce, and different attempts of one
\* invocation carry different nonces
FreshNotFromPlan ==
    /\ \A k \in AttemptIdx :
         LET stored == ex.execs[ex.log[k].i].order
         IN /\ ex.log[k].order.nonce # BigInt(stored.nonce)
            /\ ex.log[k].order.deadline # BigInt(stored.deadline)
            /\ ex.log[k].order.deadline = ex.refreshedDeadline
    /\ \A k, m \in AttemptIdx :
         ex.log[k].i # ex.log[m].i =>
             ex.log[k].order.nonce # ex.log[m].order.nonce

\* C11: every order simulated or broadcast carries a deadline and a nonce
\* generated in this invocation right before that attempt (the deadline is
\* the deadline horizon counted from the moment the attempt's nonce was
\* drawn), never the plan's stored values, and the nonces of the attempts
\* of one invocation are pairwise distinct.
C11_DeadlineAndNonceFreshPerAttempt ==
    /\ FreshNotFromPlan
    /\ \A k \in AttemptIdx :
         ex.log[k].order.deadline =
             (RefreshedAt(k) \div 1000) + Max(MIN_DEADLINE_SEC, ORDER_DEADLINE_SEC)

\* a step that is one sentry cycle
IsSentryCycle == lastScan.kind = "sentry" /\ lastScan'.n = lastScan.n + 1

\* C12: in every sentry cycle no account with an active entry in the
\* blacklist loaded at the start of the cycle is in the set passed to the
\* health engine, whether it comes from the priority set or from the
\* background chunk.
C12_NoBlacklistedAccountEvaluated ==
    [][IsSentryCycle =>
          \A i \in 1..Len(lastScan'.users) :
              ~isBlacklisted(lastScan'.bl, lastScan'.users[i], now)]_vars

\* C13: a sentry cycle publishes no candidate for an account whose entry
\* in the blacklist loaded at the start of the cycle is active (expiry
\* later than the cycle's time); an account whose entry has expired is
\* published again like an account without entry.
C13_NoBlacklistedCandidate ==
    [][IsSentryCycle =>
          /\ \A i \in 1..Len(candidates') :
                ~(lastScan'.bl[candidates'[i].borrower] > now)
          /\ \A j \in 1..Len(lastScan'.results) :
                LET h == lastScan'.results[j]
                IN ( /\ h # NullHealth
                     /\ h.healthFactor < 110
                     /\ ~(h.totalCollateralUSD < 1 /\ h.totalDebtUSD < 1)
                     /\ lastScan'.bl[h.user] < now )
                   => \E i \in 1..Len(candidates') :
                          candidates'[i].borrower = h.user]_vars

\* an account is published while the blacklist still holds its expired
\* entry
C13_Witness ==
    /\ lastScan.kind = "sentry"
    /\ \E i \in 1..Len(candidates) :
         /\ lastScan.bl[candidates[i].borrower] # 0
         /\ lastScan.bl[candidates[i].borrower] < now

\* the keys of blacklist.json that hold an entry for an account
EntriesOf(account) ==
    {k \in DOMAIN blacklist : toLowerCase(k) = account /\ blacklist[k] # 0}

\* C14: after the same account was added twice, the second time while the
\* first cooldown was still running (any two durations, any spelling of
\* the address), the blacklist holds exactly one entry for it, whose
\* expiry is the later of the two computed expiries.
C14_SecondAddKeepsLaterExpiry ==
    LET n == Len(blCalls)
    IN n >= 2 =>
        LET first == blCalls[n - 1]
            second == blCalls[n]
            account == toLowerCase(second.addr)
        IN ( /\ toLowerCase(first.addr) = account
             /\ second.at < first.at + first.durationMs )
           => /\ Cardinality(EntriesOf(account)) = 1
              /\ \A k \in EntriesOf(account) :
                    blacklist[k] = Max(first.at + first.durationMs,
                                       second.at + second.durationMs)

\* isBlacklisted answers true only for an entry that expires later than now
ExpiredEntryIsInert ==
    \A addr \in AddrSpellings :
        isBlacklisted(blacklist, addr, now) => blacklist[toLowerCase(addr)] > now

\* after an addToBlacklist call the file holds no entry that had expired
\* by the time of the call
ExpiredEntryIsPruned ==
    Len(blCalls) > 0 =>
        \A k \in DOMAIN blacklist :
            blacklist[k] # 0 => blacklist[k] > blCalls[Len(blCalls)].at

\* C15: an entry with expiry <= now is inert and pruned on the next
\* write: isBlacklisted is true only when expiry > now, and after every
\* addToBlacklist call the blacklist holds no entry with expiry <= the
\* time of that call.
C15_ExpiredEntryInertAndPruned == ExpiredEntryIsInert /\ ExpiredEntryIsPruned

\* C16: after each sentry cycle every account evaluated in that cycle is
\* in the priority set if and only if its health factor is below the
\* warning threshold 1.5.
C16_PrioritySetIffBelowWarning ==
    [][IsSentryCycle =>
          \A j \in 1..Len(lastScan'.results) :
              LET h == lastScan'.results[j]
              IN h # NullHealth =>
                    ((h.user \in Range(prioritySet')) <=> h.healthFactor < 150)]_vars

\* a step that is one miner pass
IsMinePass == mine'.n = mine.n + 1

\* C17: across any sequence of scan invocations (successful, failed, up
\* to date, after a snap-forward) the persisted forwardHead never
\* decreases.
C17_ForwardHeadNeverDecreases ==
    [][syncHead.exists =>
          syncHead'.exists /\ syncHead'.block >= syncHead.block]_vars

\* a forward pass snapped forward to the tip, and the next pass, answered
\* by a lagging node, found itself up to date
C17_Witness ==
    /\ mine.n = 2
    /\ mine.outcome = "up_to_date"
    /\ syncHead.exists
    /\ syncHead.block = 10070000
    /\ mine.toBlock < syncHead.block

\* C18: the persisted backfillHead never increases: every successful
\* backfill scan stores a value strictly lower than the one it read.
C18_BackfillHeadNeverIncreases ==
    [][(syncDeep.exists /\ syncDeep' # syncDeep) =>
          syncDeep'.exists /\ syncDeep'.block < syncDeep.block]_vars

\* C19: the backfillHead is clamped above the floor: a backfill scan that
\* starts from a head at or above block 10,000,000 fetches no window
\* reaching below the floor and persists no deepBlock below it.
C19_BackfillClampedAboveFloor ==
    (mine.n > 0 /\ mine.isBackfill /\ mine.deepRead >= 10000000) =>
        /\ mine.fromBlock >= 10000000
        /\ (mine.outcome = "mined" => syncDeep.block >= 10000000)

\* the pointer the policy chooses for a universe of that size
PolicyBackfill == mine'.universeLen < 50000

\* C20 as stated: every scan invocation advances exactly one pointer,
\* backfillHead when the universe has fewer than 50,000 accounts,
\* forwardHead otherwise, and leaves the other unchanged.
C20_ExactlyOnePointerAdvances ==
    [][IsMinePass =>
          IF PolicyBackfill
          THEN syncDeep' # syncDeep /\ syncHead' = syncHead
          ELSE syncHead' # syncHead /\ syncDeep' = syncDeep]_vars

\* C20, amended: a miner pass never touches the pointer the policy did
\* not choose; it advances the chosen pointer when it fetched its window
\* and wrote the pointer, and leaves both pointers unchanged when the
\* forward window is empty (up to date) or the fetch or the write fails.
C20_AtMostOnePointerAdvances ==
    [][IsMinePass =>
          /\ mine'.isBackfill = PolicyBackfill
          /\ IF PolicyBackfill THEN syncHead' = syncHead
                               ELSE syncDeep' = syncDeep
          /\ IF mine'.outcome = "mined"
             THEN IF PolicyBackfill
                  THEN syncDeep' # syncDeep /\ syncDeep'.block = mine'.fromBlock
                  ELSE syncHead' # syncHead /\ syncHead'.block = mine'.toBlock
             ELSE syncHead' = syncHead /\ syncDeep' = syncDeep]_vars

\* the universe crossed the threshold: a backfill pass stored its head,
\* the next pass went forward and stored the other pointer
C20_Witness ==
    /\ mine.n = 2
    /\ mine.outcome = "mined"
    /\ ~mine.isBackfill
    /\ mine.universeLen = 50000
    /\ syncHead.exists /\ syncHead.block = mine.toBlock
    /\ syncDeep.exists /\ syncDeep.block = 10000998

\* how a miner pass ends when the log fetch meets a transport or node error
FetchFailed == {"getLogs_failed", "threw"}

\* the part of C21 about the files: a pass whose log fetch failed writes
\* neither pointer and leaves the persisted universe as it was
FailedFetchWritesNothing ==
    [][(IsMinePass /\ mine'.outcome \in FetchFailed) =>
          /\ syncHead' = syncHead
          /\ syncDeep' = syncDeep
          /\ borrowersFile' = borrowersFile]_vars

\* C21: a transport or node error while scanning a window aborts that
\* window only: neither pointer is written, the scan command does not
\* fail, and the next invocation reads the same pointer values and retries
\* the window.
C21_FetchErrorAbortsWindowOnly ==
    [][(IsMinePass /\ mine'.outcome \in FetchFailed) =>
          /\ syncHead' = syncHead
          /\ syncDeep' = syncDeep
          /\ borrowersFile' = borrowersFile
          /\ mine'.outcome # "threw"]_vars

\* C22: the UniverseSet never shrinks: every write of the persisted
\* universe and every hot-reload of the sentry's in-memory universe yields
\* a superset of the set it replaces, and the persisted universe is
\* written only when the set strictly grew.
C22_UniverseNeverShrinks ==
    [][/\ Range(borrowersFile) \subseteq Range(borrowersFile')
       /\ Range(dbUsers) \subseteq Range(dbUsers')
       /\ borrowersFile' # borrowersFile =>
              Len(borrowersFile') > Len(borrowersFile)]_vars

\* the part of C22 about the persisted universe
PersistedUniverseNeverShrinks ==
    [][/\ Range(borrowersFile) \subseteq Range(borrowersFile')
       /\ borrowersFile' # borrowersFile =>
              Len(borrowersFile') > Len(borrowersFile)]_vars

\* entry i of the last batch answer
BatchEntry(i) == lastScan.results[i]
\* the read that decides entry i: the multicall answer, or the detailed
\* call's answer for a health factor below 1.1
DecidingRead(i) ==
    LET r == lastScan.reads[i][1]
    IN IF r.ok /\ r.hf < 110 THEN lastScan.reads[i][2] ELSE r

\* C23: getUsersHealthBatch(accounts) returns a list as long as accounts
\* whose entry i is the snapshot of accounts[i] or null; a failed read
\* nulls that account's entry only, a failed batch call nulls every entry.
C23_BatchAnswersPerAccount ==
    (lastScan.kind = "health" /\ lastScan.n > 0) =>
        /\ Len(lastScan.results) = Len(lastScan.users)
        /\ \A i \in 1..Len(lastScan.results) :
             /\ BatchEntry(i) # NullHealth =>
                   /\ BatchEntry(i).user = lastScan.users[i]
                   /\ BatchEntry(i).healthFactor = DecidingRead(i).hf
                   /\ BatchEntry(i).totalDebtUSD = DecidingRead(i).debt
             /\ ~lastScan.batchOk => BatchEntry(i) = NullHealth
             /\ lastScan.batchOk =>
                   (BatchEntry(i) = NullHealth <=>
                       (~lastScan.reads[i][1].ok \/ ~DecidingRead(i).ok))

\* one batch answered null for a2, whose read failed, next to the
\* snapshot of a1
C23_Witness ==
    /\ lastScan.kind = "health"
    /\ lastScan.users = <<"a1", "a2">>
    /\ lastScan.batchOk
    /\ BatchEntry(1) # NullHealth
    /\ BatchEntry(2) = NullHealth

\* the part of C24 about accounts at or above the risk ceiling: the
\* snapshot carries the multicall's totals and no asset pair
SafeAccountHasTotalsOnly ==
    (lastScan.kind = "health" /\ lastScan.n > 0) =>
        \A i \in 1..Len(lastScan.results) :
            (BatchEntry(i) # NullHealth /\ lastScan.reads[i][1].hf >= 110) =>
                /\ BatchEntry(i).bestDebt = ABSENT
                /\ BatchEntry(i).bestCollateral = ABSENT
                /\ BatchEntry(i).bestDebtAmount = NoAmount
                /\ BatchEntry(i).totalCollateralUSD = lastScan.reads[i][1].coll
                /\ BatchEntry(i).totalDebtUSD = lastScan.reads[i][1].debt

\* C24: for every account whose health factor from the batched read is
\* below 1.1 the returned snapshot names the best debt asset, the best
\* collateral asset and the outstanding amount of that debt asset; for a
\* health factor of 1.1 or more it carries the totals only.
C24_RiskySnapshotNamesBestPair ==
    /\ SafeAccountHasTotalsOnly
    /\ (lastScan.kind = "health" /\ lastScan.n > 0) =>
          \A i \in 1..Len(lastScan.results) :
              (BatchEntry(i) # NullHealth /\ lastScan.reads[i][1].hf < 110) =>
                  /\ BatchEntry(i).bestDebt \in Reserves
                  /\ BatchEntry(i).bestCollateral \in Reserves
                  /\ BatchEntry(i).bestDebtAmount > 0

\* the plan items of exec_ready candidates that came without a usable pair
PairlessIdx ==
    {i \in 1..Len(PlanItems) :
        /\ planTrace.items[i].cand.status = "exec_ready"
        /\ \/ Missing(planTrace.items[i].cand.bestDebt)
           \/ Missing(planTrace.items[i].cand.bestCollateral)}

\* what the planner holds for item i when it decides: the lookup's answer
\* if a lookup was made, the candidate's own fields otherwise
HeldAssets(i) ==
    LET tr == planTrace.items[i]
    IN IF tr.lookup = NoLookup
       THEN [bestDebt |-> tr.cand.bestDebt,
             bestCollateral |-> tr.cand.bestCollateral,
             bestDebtAmount |-> IF tr.cand.bestDebtAmount = NoAmount THEN 0
                                ELSE tr.cand.bestDebtAmount]
       ELSE getUserAssets(tr.lookup.pos)

Unresolved(i) ==
    \/ Missing(HeldAssets(i).bestDebt)
    \/ Missing(HeldAssets(i).bestCollateral)
    \/ ~(HeldAssets(i).bestDebtAmount > 0)

DiagnosticNotes == {"HF | Missing Best Assets",
                    "HF | ORDER_BUILD_SKIPPED (Missing debt amount)"}

\* the part of C25 about the written plan: a candidate whose pair or debt
\* amount is unresolved when the planner decides yields an item without
\* order, pass false, with a diagnostic note
UnresolvedYieldsDiagnosticItem ==
    \A i \in PairlessIdx :
        Unresolved(i) =>
            /\ PlanItems[i].action = "WATCH"
            /\ ~PlanItems[i].pass
            /\ "order" \notin DOMAIN PlanItems[i]
            /\ PlanItems[i].note \in DiagnosticNotes

\* C25: for every exec_ready candidate whose best debt or best collateral
\* asset is missing or zero the planner makes the just-in-time lookup
\* before deciding; if pair or debt amount are still unresolved (also when
\* the lookup itself fails) the candidate yields a non-actionable item
\* with a diagnostic note, and the plan for the other candidates is still
\* written.
C25_UnresolvedCandidateIsNonActionable ==
    /\ UnresolvedYieldsDiagnosticItem
    /\ \A i \in PairlessIdx : planTrace.items[i].lookup # NoLookup
    /\ ~(planTrace.threw /\ planTrace.cause = "getUserAssets")

\* the part of C25 about the lookup being made, for the debt asset only
LookupMadeForMissingDebt ==
    \A i \in PairlessIdx :
        Missing(planTrace.items[i].cand.bestDebt) <=>
            planTrace.items[i].lookup # NoLookup

\* does the sentry publish a candidate for this batch entry
Publishable(h, bl, t) ==
    /\ h # NullHealth
    /\ h.healthFactor < 110
    /\ ~(h.totalCollateralUSD < 1 /\ h.totalDebtUSD < 1)
    /\ ~isBlacklisted(bl, h.user, t)

\* account and health factor of every row, in order
Rows(cands) ==
    [i \in 1..Len(cands) |-> <<cands[i].borrower, cands[i].healthFactor>>]
RowsOfResults(results, bl, t) ==
    LET keep == SelectSeq(results, LAMBDA h : Publishable(h, bl, t))
    IN [i \in 1..Len(keep) |-> <<keep[i].user, keep[i].healthFactor>>]

\* a step in which planCmd wrote a plan
IsPlanWritten == planTrace'.runs = planTrace.runs + 1 /\ ~planTrace'.threw

CaughtFailuresKeepTheLoop ==
    [][/\ (IsMinePass /\ lastScan.kind # "ended") => lastScan'.kind # "ended"
       /\ IsSentryCycle =>
             /\ lastScan'.kind = "sentry"
             /\ cycleCount' = cycleCount + 1
             /\ Rows(candidates') =
                    RowsOfResults(lastScan'.results, lastScan'.bl, now)]_vars

\* C27: the scan process has no terminal state of its own: after any
\* transport, batch-read or decode failure in discovery or inside a sentry
\* cycle the cycle still reaches its publish and sleep steps and the next
\* cycle starts; no such failure ends scanCmd.
C27_NoFailureEndsTheScanProcess ==
    [][/\ lastScan'.kind # "ended"
       /\ IsSentryCycle =>
             /\ lastScan'.kind = "sentry"
             /\ cycleCount' = cycleCount + 1
             /\ Rows(candidates') =
                    RowsOfResults(lastScan'.results, lastScan'.bl, now)]_vars

\* the interval is chosen from the priority accounts the cycle started with,
\* the blacklisted ones left out
SleepFollowsDisplayPriority ==
    [][IsSentryCycle =>
          lastScan'.sleepTime =
              IF SelectSeq(prioritySet,
                           LAMBDA u : ~isBlacklisted(lastScan'.bl, u, now)) # <<>>
              THEN SLEEP_TURBO ELSE SLEEP_ECO]_vars

\* C28: at the end of every sentry cycle the sleep interval is 500 ms if the
\* priority set is non-empty at that moment and 1000 ms if it is empty
C28_SleepFollowsPrioritySet ==
    [][IsSentryCycle =>
          lastScan'.sleepTime =
              IF prioritySet' # <<>> THEN SLEEP_TURBO ELSE SLEEP_ECO]_vars

\* the accounts a step adds to the universe, in memory or on file
AddedAccounts ==
    (Range(borrowersFile') \cup Range(dbUsers'))
        \ (Range(borrowersFile) \cup Range(dbUsers))
\* the account is spelled by the low 20 bytes of a topic in slot 1, 2 or 3
\* of a fetched log
NamedInTopicSlot(a, logs) ==
    \E i \in 1..Len(logs) : \E slot \in 1..3 :
        /\ slot + 1 <= Len(logs[i])
        /\ logs[i][slot + 1].len = TOPIC_CHARS
        /\ addressOf(logs[i][slot + 1]) = a

\* every account discovery adds comes from a 32-byte topic in slot 1, 2 or
\* 3 of a log of the fetched window
AddedOnlyFromTopicSlots ==
    [][IsMinePass =>
          \A a \in AddedAccounts : NamedInTopicSlot(a, mine'.logs)]_vars

\* C29: discovery adds an account only from a non-zero 32-byte topic in
\* slots 1 to 3 of a log, as the low 20 bytes of that topic, and never adds
\* the zero address
C29_DiscoveryAddsOnlyNonZeroTopicAccounts ==
    [][IsMinePass =>
          \A a \in AddedAccounts :
              /\ NamedInTopicSlot(a, mine'.logs)
              /\ a # ZERO_ADDRESS]_vars

\* a sentry cycle whose cycle count is a reload point
IsReloadPoint == IsSentryCycle /\ cycleCount % RELOAD_EVERY = 0

\* the reload replaces the in-memory universe by the file when the file is
\* the longer list, and otherwise leaves it alone
ReloadTakesLongerFile ==
    [][IsReloadPoint =>
          dbUsers' = IF Len(borrowersFile) > Len(dbUsers)
                     THEN borrowersFile ELSE dbUsers]_vars

\* the loop goes on over a reload: the cycle counts, the cursor moves on
\* from where it stood, priority accounts the cycle did not read stay in
\* the priority set, and a universe no longer than a chunk is read whole
\* in every cycle
ReloadKeepsLoopState ==
    [][IsSentryCycle =>
          /\ lastScan'.kind = "sentry"
          /\ cycleCount' = cycleCount + 1
          /\ cursor' = IF Len(dbUsers) = 0 THEN cursor
                       ELSE (IF cursor >= Len(dbUsers) THEN 0 ELSE cursor)
                            + CHUNK_SIZE
          /\ \A u \in Range(prioritySet) :
                 u \notin Range(lastScan'.users) => u \in Range(prioritySet')
          /\ Len(dbUsers) <= CHUNK_SIZE =>
                 Range(dbUsers) \subseteq Range(lastScan'.users)]_vars

\* C30: an account a separate discovery process appended to the persisted
\* universe is in the sentry's in-memory universe after the next reload
\* point and is read within one rotation after that, the loop not
\* restarting and the priority set and the cursor not being reset
C30_ReloadAbsorbsDiscoveredAccounts ==
    [][/\ IsReloadPoint => Range(borrowersFile) \subseteq Range(dbUsers')
       /\ IsSentryCycle =>
             /\ lastScan'.kind = "sentry"
             /\ cycleCount' = cycleCount + 1
             /\ cursor' = IF Len(dbUsers) = 0 THEN cursor
                          ELSE (IF cursor >= Len(dbUsers) THEN 0 ELSE cursor)
                               + CHUNK_SIZE
             /\ \A u \in Range(prioritySet) :
                    u \notin Range(lastScan'.users) => u \in Range(prioritySet')
             /\ Len(dbUsers) <= CHUNK_SIZE =>
                    Range(dbUsers) \subseteq Range(lastScan'.users)]_vars

\* the value of a big-endian string of hex digits
RECURSIVE HexValue(_)
HexValue(str) ==
    IF str = <<>> THEN 0
    ELSE HexValue(SubSeq(str, 1, Len(str) - 1)) * HEX_BASE + str[Len(str)]
\* hex digits per token, and per hop (a fee and a token)
TokenChars == ADDR_CHARS - 2
HopChars == FEE_HEX_CHARS + TokenChars
\* the path has 20 + 23 * N bytes, token i stands at its place and the fee
\* of hop i reads back, big-endian, as the number encoded
PathReadsBack(tokens, fees, out) ==
    LET N == Len(fees)
    IN /\ Len(out) = 2 * (20 + 23 * N)
       /\ \A i \in 1..(N + 1) :
             SubSeq(out, HopChars * (i - 1) + 1, HopChars * (i - 1) + TokenChars)
                 = hexNo0x(tokens[i])
       /\ \A i \in 1..N :
             HexValue(SubSeq(out, HopChars * (i - 1) + TokenChars + 1,
                             HopChars * i)) = fees[i]

\* C31 as stated: for every token sequence of N+1 addresses and N fees in
\* [0, 2^24) the encoded path has 20 + 23*N bytes and reads back as the
\* tokens and fees encoded, a lone token (N = 0) included
C31_PathRoundTripAnyLength ==
    enc.n > 0 => PathReadsBack(enc.tokens, enc.fees, enc.out)

\* C31: for every token sequence of N+1 addresses and N >= 1 fees in
\* [0, 2^24) the encoded path is token_0 ++ fee_0 ++ token_1 ++ ... of
\* 20 + 23*N bytes, and reading it back by position recovers the tokens
\* and the fees; the one-hop encoder of the dry-run script writes the
\* same bytes
C31_PathRoundTrip ==
    (enc.n > 0 /\ Len(enc.fees) >= 1) =>
        /\ PathReadsBack(enc.tokens, enc.fees, enc.out)
        /\ Len(enc.fees) = 1 => enc.single = enc.out
C31_Witness ==
    /\ enc.n > 0
    /\ Len(enc.fees) = 2
    /\ enc.fees[1] = 500
    /\ enc.fees[2] = 16777215
    /\ Len(enc.out) = 132

\* a call of the contract function fn
IsCallOf(fn) ==
    /\ executor.deployed
    /\ executor'.calls = executor.calls + 1
    /\ executor'.last.fn = fn
\* the contract storage, the call history left out
Storage(c) == [c EXCEPT !.calls = 0, !.last = 0, !.executed = 0]

\* the signed entry point executes an order only with a nonce that was
\* unused, and marks it used
SignedPathConsumesNonce ==
    [][IsCallOf("executeWithSig") =>
          \A n \in Nonces :
              executor'.executed[n] # executor.executed[n] =>
                  /\ n \notin executor.usedNonces
                  /\ n \in executor'.usedNonces]_vars

\* C32: for any nonce value at most one order bearing that nonce is ever
\* executed, through execute or through executeWithSig
C32_NonceIsSingleUse ==
    executor.deployed => \A n \in Nonces : executor.executed[n] <= 1

\* the caller may execute: the contract is not paused, and the caller is an
\* allow-listed operator in operator mode or the owner outside it
MayExecute(c, sender) ==
    /\ ~c.paused
    /\ \/ c.operatorModeEnabled /\ sender \in c.isOperator
       \/ ~c.operatorModeEnabled /\ sender = c.owner

\* C40: after any sequence of admin calls, execute(order) starts a flash
\* loan only when the contract is not paused and the caller is an
\* allow-listed operator while operator mode is enabled, or the owner while
\* it is disabled; every other call reverts and changes no state
C40_ExecuteGatedByOperatorAndPause ==
    [][IsCallOf("execute") =>
          LET sender == executor'.last.sender
          IN /\ executor'.last.started => MayExecute(executor, sender)
             /\ ~MayExecute(executor, sender) =>
                   /\ executor'.last.err # "none"
                   /\ Storage(executor') = Storage(executor)
                   /\ executor'.executed = executor.executed]_vars
C40_Witness ==
    /\ executor.deployed
    /\ executor.owner = "op"
    /\ ~executor.operatorModeEnabled
    /\ executor.last.fn = "execute"
    /\ executor.last.sender = "op"
    /\ executor.last.started
    /\ executor.last.err = "none"
    /\ "op" \notin executor.isOperator

\* a step of scanCmd, and the files it writes
IsScanStep == lastScan' # lastScan
\* C39: in sentry mode no sync pointer and no persisted universe is ever
\* written, and in mining mode the candidate stream is never written and
\* the sentry loop is never entered
C39_ModesKeepToTheirFiles ==
    [][/\ lastScan.mode = "sentry" =>
             UNCHANGED <<syncHead, syncDeep, borrowersFile>>
       /\ lastScan.mode = "mining" =>
             /\ UNCHANGED <<candidates, cycleCount, cursor, prioritySet>>
             /\ lastScan'.kind # "sentry"]_vars
C39_Witness ==
    /\ lastScan.mode = "mining"
    /\ lastScan.kind = "returned"
    /\ mine.n = 1
    /\ mine.outcome = "mined"
    /\ Len(borrowersFile) >= 2
    /\ candidates = <<>>

\* C33: scanCmd() called with no options terminates, and when it has
\* returned data/hot_queue.json exists
C33_DefaultScanReturnsWithHotQueue ==
    (lastScan.mode = modeOf(NoOptions) /\ lastScan.kind = "mixed")
        ~> (lastScan.kind = "returned" /\ hotQueueFile.exists)

\* the default scanCmd never returns: it ends by a rejection or stays in
\* the sentry loop
DefaultScanNeverReturns ==
    lastScan.mode = modeOf(NoOptions) => lastScan.kind # "returned"

\* the background chunk a sentry cycle took, by where the cursor ends
ChunkStart == cursor' - CHUNK_SIZE
ChunkTaken ==
    SubSeq(dbUsers, ChunkStart + 1, Min(ChunkStart + CHUNK_SIZE, Len(dbUsers)))
\* ceil(n / 50)
RotationLength(n) == (n + CHUNK_SIZE - 1) \div CHUNK_SIZE

\* C34: on an unchanged universe of n > 0 accounts every account gets a
\* place in a background chunk at least once in any ceil(n/50) consecutive
\* cycles; when a chunk is taken the cursor is in [0, n), the chunk is
\* non-empty and has at most 50 accounts, and every priority account that
\* is not blacklisted is evaluated in every cycle
C34_RotationCoversUniverse ==
    [][(IsSentryCycle /\ Len(dbUsers) > 0 /\ dbUsers' = dbUsers) =>
          LET n == Len(dbUsers)
          IN /\ ChunkStart \in 0..(n - 1)
             /\ ChunkTaken # <<>>
             /\ Len(ChunkTaken) <= CHUNK_SIZE
             /\ Range(ChunkTaken) \subseteq Range(lastScan'.users)
             /\ ChunkStart = IF cursor >= n THEN 0 ELSE cursor
             /\ RotationLength(n) = 1 =>
                    Range(dbUsers) \subseteq Range(lastScan'.users)
             /\ (RotationLength(n) = 2 /\ lastScan.n >= 1) =>
                    Range(dbUsers) \subseteq
                        Range(lastScan.users) \cup Range(lastScan'.users)
             /\ \A u \in Range(prioritySet) :
                    ~isBlacklisted(lastScan'.bl, u, now) =>
                        u \in Range(lastScan'.users)]_vars
C34_Witness ==
    /\ Len(dbUsers) = FillerCount + 2
    /\ RotationLength(Len(dbUsers)) = 2
    /\ cycleCount = 2
    /\ cursor = 2 * CHUNK_SIZE
    /\ Len(lastScan.users) = Len(dbUsers) - CHUNK_SIZE + 1
    /\ lastScan.users[1] = "a1"
    /\ lastScan.users[Len(lastScan.users)] = Fillers[FillerCount]

\* two miner passes in a row, both backfill, both having fetched their
\* window and stored the pointer
IsNextBackfill ==
    /\ IsMinePass
    /\ mine.n > 0 /\ mine.isBackfill /\ mine.outcome = "mined"
    /\ mine'.isBackfill /\ mine'.outcome = "mined"

\* C35: consecutive successful backfill scans cover adjacent windows that
\* do not overlap: the window of a backfill scan ends exactly one block
\* below the start of the window of the backfill scan before it
C35_BackfillWindowsAdjacent ==
    [][IsNextBackfill => mine'.toBlock = mine.fromBlock - 1]_vars

\* the windows are adjacent unless the earlier window started at block 0,
\* a deepBlock the next scan reads as "no backfill head"
BackfillWindowsAdjacentAboveZero ==
    [][(IsNextBackfill /\ mine.fromBlock # 0) =>
          mine'.toBlock = mine.fromBlock - 1]_vars

\* C36: a plan whose generation timestamp is missing or cannot be parsed
\* is treated like a stale plan: execCmd takes no order from it to a
\* simulation or a broadcast
C36_UnstampedPlanAborts ==
    (ex.runs > 0 /\ plan.exists /\ plan.generatedAt = NaN) =>
        /\ ex.pc = "done"
        /\ ex.log = <<>>
        /\ ex.tried = 0

\* a step of execCmd that sends the order to simulateContract or to
\* writeContract
IsExecAttempt == ex.pc \in {"simulate", "broadcast"} /\ ex' # ex

\* C37: execCmd never simulates or broadcasts an order whose borrower has
\* an active blacklist entry at the time of the attempt
C37_NoAttemptOnBlacklistedBorrower ==
    [][IsExecAttempt =>
          ~isBlacklisted(loadBlacklist, ex.order.borrower, now)]_vars

\* both processes are back from addToBlacklist, having named two
\* different accounts
BothAdded ==
    /\ \A p \in Procs : blProcs[p].pc = "done"
    /\ toLowerCase(blProcs[1].addr) # toLowerCase(blProcs[2].addr)
\* the entry process p asked for is in the file and active, or its hour
\* is over
EntryKept(p) ==
    \/ now > blProcs[p].at + DEFAULT_DURATION_MS
    \/ /\ isBlacklisted(blacklist, blProcs[p].addr, now)
       /\ blacklist[toLowerCase(blProcs[p].addr)] =
              blProcs[p].at + DEFAULT_DURATION_MS
\* process q loaded the file after process p had saved it
After(p, q) == blProcs[q].loadStep > blProcs[p].saveStep

\* C38 as stated: when two processes call addToBlacklist for two
\* different accounts with their load-prune-save steps interleaved in any
\* way, both accounts have an active entry in the file after both calls
C38_NoEntryLost ==
    BothAdded => \A p \in Procs : EntryKept(p)

\* C38, amended: the entry of the process that saved last is in the file;
\* the entry of the other process is in the file too when the later
\* process loaded the file after the earlier one had saved it. (Two calls
\* that both load before either saves leave only the entry saved last.)
C38_NoEntryLostWithoutOverlap ==
    BothAdded =>
        \A p \in Procs : \A q \in Procs \ {p} :
            /\ blProcs[q].saveStep > blProcs[p].saveStep => EntryKept(q)
            /\ After(p, q) => EntryKept(p)
\* two calls one after the other, both entries active
C38_Witness ==
    /\ BothAdded
    /\ After(1, 2)
    /\ isBlacklisted(blacklist, blProcs[1].addr, now)
    /\ isBlacklisted(blacklist, blProcs[2].addr, now)
    /\ blProcs[1].addr = "A1"

====
